---- MODULE Spec2Model ----
(***************************************************************************)
(* Tag planning (internal/domain/tagplan) and the tagging service          *)
(* (internal/services/tagging) of the ADO automatic versioner.             *)
(*                                                                         *)
(* Strings are sequences of one-character strings, so that parsing and     *)
(* formatting are computed and not assumed.  Unsigned 64-bit numbers are   *)
(* canonical decimal digit sequences (no leading zero), which keeps the    *)
(* full uint64 / int64 range exact.                                        *)
(***************************************************************************)
EXTENDS Naturals, Integers, Sequences, FiniteSets, TLC

VARIABLES refs, prefix, pc, cfg, snap, plan, ret, log, hist, prLabels, resolver, apply, infer

vars == <<refs, prefix, pc, cfg, snap, plan, ret, log, hist, prLabels, resolver, apply, infer>>

(***************************************************************************)
(* Strings                                                                 *)
(***************************************************************************)
DigitChars == <<"0", "1", "2", "3", "4", "5", "6", "7", "8", "9">>

IsDigit(c) == \E i \in 1..10 : DigitChars[i] = c

DigitVal(c) == (CHOOSE i \in 1..10 : DigitChars[i] = c) - 1

LetterChars == <<"A", "B", "C", "R", "V", "a", "b", "c", "d", "e", "f", "g", "i", "l", "n", "o", "r", "s", "t", "u", "v", "x">>

IsLetter(c) == \E i \in 1..Len(LetterChars) : LetterChars[i] = c

\* strings.ToLower on the letters the model uses (for strings.EqualFold)
ToLowerChar(c) ==
    CASE c = "A" -> "a"
      [] c = "B" -> "b"
      [] c = "C" -> "c"
      [] c = "F" -> "f"
      [] c = "M" -> "m"
      [] c = "R" -> "r"
      [] c = "S" -> "s"
      [] c = "V" -> "v"
      [] OTHER -> c

ToLower(s) == [i \in 1..Len(s) |-> ToLowerChar(s[i])]

EqualFold(s, t) == ToLower(s) = ToLower(t)

IsSpace(c) == c = " "

RECURSIVE TrimLeft(_)
TrimLeft(s) == IF s # <<>> /\ IsSpace(Head(s)) THEN TrimLeft(Tail(s)) ELSE s

RECURSIVE TrimRight(_)
TrimRight(s) ==
    IF s # <<>> /\ IsSpace(s[Len(s)]) THEN TrimRight(SubSeq(s, 1, Len(s) - 1)) ELSE s

TrimSpace(s) == TrimRight(TrimLeft(s))

HasPrefix(s, p) == Len(s) >= Len(p) /\ SubSeq(s, 1, Len(p)) = p

TrimPrefix(s, p) == IF HasPrefix(s, p) THEN SubSeq(s, Len(p) + 1, Len(s)) ELSE s

\* index of the first occurrence of character c in s, 0 when absent
RECURSIVE IndexFrom(_, _, _)
IndexFrom(s, c, i) ==
    IF i > Len(s) THEN 0 ELSE IF s[i] = c THEN i ELSE IndexFrom(s, c, i + 1)

IndexOf(s, c) == IndexFrom(s, c, 1)

\* strings.Split(s, c): always at least one (possibly empty) part
RECURSIVE Split(_, _)
Split(s, c) ==
    LET i == IndexOf(s, c)
    IN  IF i = 0 THEN <<s>>
        ELSE <<SubSeq(s, 1, i - 1)>> \o Split(SubSeq(s, i + 1, Len(s)), c)

\* strings.SplitN(s, c, 3)
SplitN3(s, c) ==
    LET i == IndexOf(s, c)
    IN  IF i = 0 THEN <<s>>
        ELSE LET rest == SubSeq(s, i + 1, Len(s))
                 j    == IndexOf(rest, c)
             IN  IF j = 0 THEN <<SubSeq(s, 1, i - 1), rest>>
                 ELSE <<SubSeq(s, 1, i - 1), SubSeq(rest, 1, j - 1),
                        SubSeq(rest, j + 1, Len(rest))>>

RECURSIVE Join(_, _)
Join(parts, c) ==
    IF parts = <<>> THEN <<>>
    ELSE IF Len(parts) = 1 THEN parts[1]
    ELSE parts[1] \o <<c>> \o Join(Tail(parts), c)

(***************************************************************************)
(* Numbers: uint64 as canonical decimal digit sequences                    *)
(***************************************************************************)
MaxUint64 == <<"1", "8", "4", "4", "6", "7", "4", "4", "0", "7", "3", "7", "0", "9", "5", "5", "1", "6", "1", "5">>

MaxInt64 == <<"9", "2", "2", "3", "3", "7", "2", "0", "3", "6", "8", "5", "4", "7", "7", "5", "8", "0", "7">>

Zero == <<"0">>

One == <<"1">>

OnlyDigits(s) == \A i \in 1..Len(s) : IsDigit(s[i])

RECURSIVE StripZeros(_)
StripZeros(s) == IF Len(s) > 1 /\ s[1] = "0" THEN StripZeros(Tail(s)) ELSE s

\* first position where two digit sequences of equal length differ, 0 if none
FirstDiff(a, b) ==
    IF \E i \in 1..Len(a) : a[i] # b[i]
    THEN CHOOSE i \in 1..Len(a) : a[i] # b[i] /\ \A j \in 1..(i - 1) : a[j] = b[j]
    ELSE 0

\* numeric < on canonical digit sequences
NumLT(a, b) ==
    IF Len(a) # Len(b) THEN Len(a) < Len(b)
    ELSE LET i == FirstDiff(a, b)
         IN  i # 0 /\ DigitVal(a[i]) < DigitVal(b[i])

NumLE(a, b) == a = b \/ NumLT(a, b)

\* decimal successor without bound
RECURSIVE DecSucc(_)
DecSucc(a) ==
    IF a = <<>> THEN One
    ELSE LET last == a[Len(a)]
             init == SubSeq(a, 1, Len(a) - 1)
         IN  IF last = "9" THEN DecSucc(init) \o <<"0">>
             ELSE init \o <<DigitChars[DigitVal(last) + 2]>>

\* x++ on a uint64: wraps to 0 at 2^64 - 1
UintInc(a) == IF a = MaxUint64 THEN Zero ELSE DecSucc(a)

\* strconv.ParseUint(s, 10, 64)
ParseUint(s) ==
    IF s = <<>> \/ ~OnlyDigits(s) THEN [ok |-> FALSE, val |-> Zero]
    ELSE LET v == StripZeros(s)
         IN  IF NumLE(v, MaxUint64) THEN [ok |-> TRUE, val |-> v]
             ELSE [ok |-> FALSE, val |-> Zero]

(***************************************************************************)
(* github.com/blang/semver/v4 as the planner uses it                       *)
(***************************************************************************)
IsAlnum(c) == IsDigit(c) \/ IsLetter(c) \/ c = "-"

OnlyAlnum(s) == \A i \in 1..Len(s) : IsAlnum(s[i])

hasLeadingZeroes(s) == Len(s) > 1 /\ s[1] = "0"

ZeroVersion == [Major |-> Zero, Minor |-> Zero, Patch |-> Zero, Pre |-> <<>>, Build |-> <<>>]

\* semver.NewPRVersion
NewPRVersion(s) ==
    LET num == ParseUint(s)
    IN  IF s = <<>> THEN [ok |-> FALSE]
        ELSE IF OnlyDigits(s)
        THEN IF hasLeadingZeroes(s) \/ ~num.ok THEN [ok |-> FALSE]
             ELSE [ok |-> TRUE, pr |-> [VersionStr |-> <<>>, VersionNum |-> num.val, IsNum |-> TRUE]]
        ELSE IF OnlyAlnum(s)
        THEN [ok |-> TRUE, pr |-> [VersionStr |-> s, VersionNum |-> Zero, IsNum |-> FALSE]]
        ELSE [ok |-> FALSE]

\* numeric part of major / minor / patch
ParseNumPart(s) ==
    IF ~OnlyDigits(s) \/ hasLeadingZeroes(s) THEN [ok |-> FALSE, val |-> Zero]
    ELSE ParseUint(s)

\* semver.Parse
semverParse(s) ==
    LET fail == [ok |-> FALSE, v |-> ZeroVersion]
        version(major, minor, patch, pres, build) ==
            IF /\ major.ok /\ minor.ok /\ patch.ok
               /\ \A i \in DOMAIN pres : pres[i].ok
               /\ \A i \in DOMAIN build : build[i] # <<>> /\ OnlyAlnum(build[i])
            THEN [ok |-> TRUE,
                  v  |-> [Major |-> major.val, Minor |-> minor.val, Patch |-> patch.val,
                          Pre   |-> [i \in DOMAIN pres |-> pres[i].pr],
                          Build |-> build]]
            ELSE fail
        withStrs(major, minor, patchStr, preStrs, build) ==
            version(major, minor, ParseNumPart(patchStr),
                    [i \in 1..Len(preStrs) |-> NewPRVersion(preStrs[i])], build)
        withPre(major, minor, noBuild, pi, build) ==
            withStrs(major, minor,
                     IF pi = 0 THEN noBuild ELSE SubSeq(noBuild, 1, pi - 1),
                     IF pi = 0 THEN <<>> ELSE Split(SubSeq(noBuild, pi + 1, Len(noBuild)), "."),
                     build)
        withBuild(major, minor, noBuild, build) ==
            withPre(major, minor, noBuild, IndexOf(noBuild, "-"), build)
        withRaw(major, minor, raw, bi) ==
            withBuild(major, minor,
                      IF bi = 0 THEN raw ELSE SubSeq(raw, 1, bi - 1),
                      IF bi = 0 THEN <<>> ELSE Split(SubSeq(raw, bi + 1, Len(raw)), "."))
        withParts(parts) ==
            IF Len(parts) # 3 THEN fail
            ELSE withRaw(ParseNumPart(parts[1]), ParseNumPart(parts[2]), parts[3],
                         IndexOf(parts[3], "+"))
    IN  IF s = <<>> THEN fail ELSE withParts(SplitN3(s, "."))

\* PRVersion.String
PRString(pr) == IF pr.IsNum THEN pr.VersionNum ELSE pr.VersionStr

\* Version.String
VersionString(v) ==
    v.Major \o <<".">> \o v.Minor \o <<".">> \o v.Patch
      \o (IF v.Pre = <<>> THEN <<>>
          ELSE <<"-">> \o Join([i \in 1..Len(v.Pre) |-> PRString(v.Pre[i])], "."))
      \o (IF v.Build = <<>> THEN <<>> ELSE <<"+">> \o Join(v.Build, "."))

NumCompare(a, b) == IF a = b THEN 0 ELSE IF NumLT(a, b) THEN -1 ELSE 1

\* byte order of the characters the model uses (ASCII: '-' < digits < upper < lower)
CharOrder == <<"-">> \o DigitChars \o LetterChars

CharRank(c) == CHOOSE i \in 1..Len(CharOrder) : CharOrder[i] = c

\* Go string comparison
RECURSIVE StrCompare(_, _)
StrCompare(a, b) ==
    IF a = <<>> /\ b = <<>> THEN 0
    ELSE IF a = <<>> THEN -1
    ELSE IF b = <<>> THEN 1
    ELSE IF a[1] = b[1] THEN StrCompare(Tail(a), Tail(b))
    ELSE IF CharRank(a[1]) < CharRank(b[1]) THEN -1 ELSE 1

\* PRVersion.Compare
PRCompare(a, b) ==
    IF a.IsNum /\ ~b.IsNum THEN -1
    ELSE IF ~a.IsNum /\ b.IsNum THEN 1
    ELSE IF a.IsNum /\ b.IsNum THEN NumCompare(a.VersionNum, b.VersionNum)
    ELSE StrCompare(a.VersionStr, b.VersionStr)

RECURSIVE PreCompare(_, _)
PreCompare(a, b) ==
    IF a = <<>> /\ b = <<>> THEN 0
    ELSE IF a = <<>> THEN -1
    ELSE IF b = <<>> THEN 1
    ELSE LET c == PRCompare(a[1], b[1])
         IN  IF c # 0 THEN c ELSE PreCompare(Tail(a), Tail(b))

\* Version.Compare (build metadata is ignored)
VersionCompare(v, o) ==
    IF v.Major # o.Major THEN NumCompare(v.Major, o.Major)
    ELSE IF v.Minor # o.Minor THEN NumCompare(v.Minor, o.Minor)
    ELSE IF v.Patch # o.Patch THEN NumCompare(v.Patch, o.Patch)
    ELSE IF v.Pre = <<>> /\ o.Pre = <<>> THEN 0
    ELSE IF v.Pre = <<>> THEN 1
    ELSE IF o.Pre = <<>> THEN -1
    ELSE PreCompare(v.Pre, o.Pre)

\* Version.GT
GT(v, o) == VersionCompare(v, o) = 1

\* Version.IncrementMajor / IncrementMinor / IncrementPatch: plain ++ on
\* uint64 fields, the returned error is always nil
IncrementMajor(v) == [v EXCEPT !.Major = UintInc(v.Major), !.Minor = Zero, !.Patch = Zero]

IncrementMinor(v) == [v EXCEPT !.Minor = UintInc(v.Minor), !.Patch = Zero]

IncrementPatch(v) == [v EXCEPT !.Patch = UintInc(v.Patch)]

(***************************************************************************)
(* internal/domain/tagplan                                                 *)
(***************************************************************************)
ModeRelease == "release"

ModeRC == "rc"

BaseSourceExisting == "existing-release"

BaseSourceConfigured == "configured-base"

BaseSourceZero == "default-zero"

BumpMajor == "major"

BumpMinor == "minor"

BumpPatch == "patch"

RefsTagsPrefix == <<"r", "e", "f", "s", "/", "t", "a", "g", "s", "/">>

\* Go int (64-bit) as sign and magnitude
IntOf(mag) == [neg |-> FALSE, mag |-> mag]

MinInt64 == [neg |-> TRUE, mag |-> DecSucc(MaxInt64)]

\* n + 1 on an int that is >= 0: wraps to the most negative value
IntInc(n) == IF n.mag = MaxInt64 THEN MinInt64 ELSE IntOf(DecSucc(n.mag))

\* n > m on ints that are >= 0
IntGT(n, m) == NumLT(m.mag, n.mag)

ZeroTag == [Name |-> <<>>, ObjectID |-> <<>>]

ZeroFloatingPlan ==
    [TagName |-> <<>>, Existing |-> ZeroTag, AutoDetected |-> FALSE,
     AutoDetectedMajor |-> Zero, Enabled |-> FALSE, DeletedExisting |-> FALSE,
     Created |-> FALSE]

ZeroResult ==
    [Mode |-> "", TagName |-> <<>>, Version |-> ZeroVersion, ReleaseBase |-> ZeroVersion,
     BaseSource |-> "", TargetRelease |-> ZeroVersion, RCNumber |-> IntOf(Zero),
     Floating |-> ZeroFloatingPlan]

NewPlanner(p) == TrimSpace(p)

(* tag names of the initial stores *)
Ref(name, oid) == [Name |-> RefsTagsPrefix \o name, ObjectID |-> oid]

\* releases (one at the uint64 limit), a pre-release, floating tags and malformed names
PlanPool ==
    {Ref(<<"v", "1", ".", "2", ".", "3">>, <<"a">>),
     Ref(<<"v", "1", ".", "3", ".", "0">>, <<"b">>),
     Ref(<<"v", "2", ".", "0", ".", "0">>, <<>>),
     Ref(<<"v", "1", "8", "4", "4", "6", "7", "4", "4", "0", "7", "3", "7", "0", "9", "5", "5", "1", "6", "1", "5", ".", "0", ".", "0">>, <<"a">>),
     Ref(<<"v", "1", ".", "3", ".", "0", "-", "r", "c", ".", "1">>, <<"a">>),
     Ref(<<"v", "1">>, <<"a">>),
     Ref(<<"v", "1">>, <<"b">>),
     Ref(<<"v", "2">>, <<>>),
     Ref(<<"l", "a", "t", "e", "s", "t">>, <<"a">>)}

\* one release and pre-release tags of its bump targets: rc.N, other channels, other shapes
RCPool ==
    {Ref(<<"v", "1", ".", "2", ".", "3">>, <<"a">>),
     Ref(<<"v", "2", ".", "0", ".", "0", "-", "r", "c", ".", "1">>, <<"a">>),
     Ref(<<"v", "2", ".", "0", ".", "0", "-", "r", "c", ".", "3">>, <<"a">>),
     Ref(<<"v", "2", ".", "0", ".", "0", "-", "R", "C", ".", "2">>, <<"a">>),
     Ref(<<"v", "2", ".", "0", ".", "0", "-", "b", "e", "t", "a", ".", "5">>, <<"a">>),
     Ref(<<"v", "2", ".", "0", ".", "0", "-", "r", "c", ".", "0">>, <<"a">>),
     Ref(<<"v", "2", ".", "0", ".", "0", "-", "r", "c", ".", "9", "2", "2", "3", "3", "7", "2", "0", "3", "6", "8", "5", "4", "7", "7", "5", "8", "0", "8">>, <<"a">>),
     Ref(<<"v", "2", ".", "0", ".", "0", "-", "r", "c", ".", "9", "2", "2", "3", "3", "7", "2", "0", "3", "6", "8", "5", "4", "7", "7", "5", "8", "0", "7">>, <<"a">>),
     Ref(<<"v", "2", ".", "0", ".", "0", "-", "r", "c">>, <<"a">>),
     Ref(<<"v", "2", ".", "0", ".", "0", "-", "r", "c", ".", "1", ".", "x">>, <<"a">>),
     Ref(<<"v", "2", ".", "0", ".", "0", "-", "r", "c", ".", "x">>, <<"a">>),
     Ref(<<"v", "1", ".", "3", ".", "0", "-", "r", "c", ".", "7">>, <<"a">>)}

\* a release, RC tags of its next minor and major, and the RC tag of the
\* largest number
OverridePool ==
    {Ref(<<"v", "1", ".", "2", ".", "3">>, <<"a">>),
     Ref(<<"v", "2", ".", "0", ".", "0", "-", "r", "c", ".", "1">>, <<"a">>),
     Ref(<<"v", "2", ".", "0", ".", "0", "-", "r", "c", ".", "9", "2", "2", "3", "3", "7", "2", "0", "3", "6", "8", "5", "4", "7", "7", "5", "8", "0", "7">>, <<"a">>),
     Ref(<<"v", "1", ".", "3", ".", "0", "-", "r", "c", ".", "7">>, <<"a">>)}

\* a release and three names of the floating major 1
MovePool ==
    {Ref(<<"v", "1", ".", "2", ".", "3">>, <<"a">>),
     Ref(<<"v", "1">>, <<"a">>),
     Ref(<<"V", "1">>, <<"b">>),
     Ref(<<"v", "0", "1">>, <<"c">>)}

\* a release and its floating tag, on the release or on another commit
ConcurrentPool ==
    {Ref(<<"v", "1", ".", "2", ".", "3">>, <<"a">>),
     Ref(<<"v", "1">>, <<"a">>),
     Ref(<<"v", "1">>, <<"b">>)}

\* a release, floating tags that follow it or not, and an RC tag
ServicePool ==
    {Ref(<<"v", "1", ".", "2", ".", "3">>, <<"a">>),
     Ref(<<"v", "1">>, <<"a">>),
     Ref(<<"v", "1">>, <<"b">>),
     Ref(<<"v", "1">>, <<>>),
     Ref(<<"v", "2">>, <<"b">>),
     Ref(<<"v", "1", ".", "2", ".", "4", "-", "r", "c", ".", "1">>, <<"b">>)}

\* tags of every category: two names of one version, a pre-release, three
\* names of the floating major 1, a major beyond uint64 and a name that is
\* no version
CatalogPool ==
    {Ref(<<"v", "1", ".", "2", ".", "3">>, <<"a">>),
     Ref(<<"1", ".", "2", ".", "3", "+", "b", "u", "i", "l", "d">>, <<"b">>),
     Ref(<<"v", "1", ".", "3", ".", "0", "-", "r", "c", ".", "1">>, <<"a">>),
     Ref(<<"v", "1">>, <<"a">>),
     Ref(<<"V", "1">>, <<"b">>),
     Ref(<<"v", "0", "1">>, <<"c">>),
     Ref(<<"v", "1", "8", "4", "4", "6", "7", "4", "4", "0", "7", "3", "7", "0", "9", "5", "5", "1", "6", "1", "6">>, <<"a">>),
     Ref(<<"l", "a", "t", "e", "s", "t">>, <<"a">>)}

parseSemverTagOf(name) ==
    LET fail == [ok |-> FALSE, v |-> ZeroVersion]
        orStripped(normalized, direct) ==
            IF direct.ok THEN direct
            ELSE IF Len(normalized) > 1 /\ normalized[1] \in {"v", "V"}
            THEN semverParse(Tail(normalized))
            ELSE fail
        parse(normalized) ==
            IF normalized = <<>> THEN fail
            ELSE orStripped(normalized, semverParse(normalized))
    IN  parse(TrimPrefix(TrimSpace(name), RefsTagsPrefix))

\* parseSemverTag, computed once for the tag names of the initial stores
ParsedNames ==
    [n \in {t.Name : t \in PlanPool \cup RCPool \cup ServicePool \cup CatalogPool} |->
        parseSemverTagOf(n)]

parseSemverTag(name) ==
    LET lookup(table) == IF name \in DOMAIN table THEN table[name] ELSE parseSemverTagOf(name)
    IN  lookup(ParsedNames)

parseVersionString(input) ==
    LET fail == [ok |-> FALSE, v |-> ZeroVersion]
        orStripped(trimmed, direct) ==
            IF direct.ok THEN direct
            ELSE IF Len(trimmed) > 1 /\ trimmed[1] \in {"v", "V"}
            THEN semverParse(Tail(trimmed))
            ELSE fail
        parse(trimmed) ==
            IF trimmed = <<>> THEN fail
            ELSE orStripped(trimmed, semverParse(trimmed))
    IN  parse(TrimPrefix(TrimSpace(input), RefsTagsPrefix))

parseFloatingTag(name) ==
    LET fail == [ok |-> FALSE, major |-> Zero]
        result(value) == IF value.ok THEN [ok |-> TRUE, major |-> value.val] ELSE fail
        parse(trimmed) ==
            IF Len(trimmed) <= 1 THEN fail
            ELSE IF trimmed[1] \notin {"v", "V"} THEN fail
            ELSE IF ~OnlyDigits(Tail(trimmed)) THEN fail
            ELSE result(ParseUint(Tail(trimmed)))
    IN  parse(TrimPrefix(TrimSpace(name), RefsTagsPrefix))

EmptyCatalog == [releases |-> <<>>, prereleases |-> <<>>, floating |-> <<>>]

\* buildCatalog with the error of parseFloatingTag ignored: every name that
\* is not a SemVer tag is kept as a floating entry
buildCatalog_KeepUnparsed(tags) ==
    LET add(c, tag, parsed, float) ==
            IF ~parsed.ok
            THEN [c EXCEPT !.floating = Append(@, [major |-> float.major, tag |-> tag])]
            ELSE IF Len(parsed.v.Pre) = 0
            THEN [c EXCEPT !.releases = Append(@, [version |-> parsed.v, tag |-> tag])]
            ELSE [c EXCEPT !.prereleases = Append(@, parsed.v)]
        F[k \in 0..Len(tags)] ==
            IF k = 0 THEN EmptyCatalog
            ELSE add(F[k - 1], tags[k], parseSemverTag(tags[k].Name), parseFloatingTag(tags[k].Name))
    IN  F[Len(tags)]

\* buildCatalog without the test of the pre-release identifiers
buildCatalog_AllReleases(tags) ==
    LET add(c, tag, parsed, float) ==
            IF ~parsed.ok
            THEN IF float.ok
                 THEN [c EXCEPT !.floating = Append(@, [major |-> float.major, tag |-> tag])]
                 ELSE c
            ELSE [c EXCEPT !.releases = Append(@, [version |-> parsed.v, tag |-> tag])]
        F[k \in 0..Len(tags)] ==
            IF k = 0 THEN EmptyCatalog
            ELSE add(F[k - 1], tags[k], parseSemverTag(tags[k].Name), parseFloatingTag(tags[k].Name))
    IN  F[Len(tags)]

buildCatalog(tags) ==
    LET add(c, tag, parsed, float) ==
            IF ~parsed.ok
            THEN IF float.ok
                 THEN [c EXCEPT !.floating = Append(@, [major |-> float.major, tag |-> tag])]
                 ELSE c
            ELSE IF Len(parsed.v.Pre) = 0
            THEN [c EXCEPT !.releases = Append(@, [version |-> parsed.v, tag |-> tag])]
            ELSE [c EXCEPT !.prereleases = Append(@, parsed.v)]
        F[k \in 0..Len(tags)] ==
            IF k = 0 THEN EmptyCatalog
            ELSE add(F[k - 1], tags[k], parseSemverTag(tags[k].Name), parseFloatingTag(tags[k].Name))
    IN  F[Len(tags)]

\* the loop of chooseBaseRelease and of catalog.highestRelease: the first
\* entry that no other entry is GT than
RECURSIVE highestEntry(_)
highestEntry(releases) ==
    IF Len(releases) = 1 THEN releases[1]
    ELSE LET highest   == highestEntry(SubSeq(releases, 1, Len(releases) - 1))
             candidate == releases[Len(releases)]
         IN  IF GT(candidate.version, highest.version) THEN candidate ELSE highest

\* chooseBaseRelease falling back to 0.0.0 when the configured base does not parse
chooseBaseRelease_FallbackZero(releases, baseOverride) ==
    LET configured(parsed) ==
            IF ~parsed.ok
            THEN [version |-> semverParse(<<"0", ".", "0", ".", "0">>).v, source |-> BaseSourceZero, err |-> ""]
            ELSE [version |-> parsed.v, source |-> BaseSourceConfigured, err |-> ""]
    IN  IF Len(releases) > 0
        THEN [version |-> highestEntry(releases).version, source |-> BaseSourceExisting, err |-> ""]
        ELSE IF TrimSpace(baseOverride) # <<>>
        THEN configured(parseVersionString(baseOverride))
        ELSE [version |-> semverParse(<<"0", ".", "0", ".", "0">>).v, source |-> BaseSourceZero, err |-> ""]

\* chooseBaseRelease with the configured base validated before the releases
\* are looked at
chooseBaseRelease_ValidateOverride(releases, baseOverride) ==
    LET configured(parsed) ==
            IF ~parsed.ok
            THEN [version |-> ZeroVersion, source |-> "", err |-> "invalid base version"]
            ELSE [version |-> parsed.v, source |-> BaseSourceConfigured, err |-> ""]
        chosen(given) ==
            IF given.err # "" THEN given
            ELSE IF Len(releases) > 0
            THEN [version |-> highestEntry(releases).version, source |-> BaseSourceExisting, err |-> ""]
            ELSE given
    IN  IF TrimSpace(baseOverride) # <<>>
        THEN chosen(configured(parseVersionString(baseOverride)))
        ELSE IF Len(releases) > 0
        THEN [version |-> highestEntry(releases).version, source |-> BaseSourceExisting, err |-> ""]
        ELSE [version |-> semverParse(<<"0", ".", "0", ".", "0">>).v, source |-> BaseSourceZero, err |-> ""]

\* chooseBaseRelease with the configured base consulted before the releases
chooseBaseRelease_OverrideFirst(releases, baseOverride) ==
    LET configured(parsed) ==
            IF ~parsed.ok
            THEN [version |-> ZeroVersion, source |-> "", err |-> "invalid base version"]
            ELSE [version |-> parsed.v, source |-> BaseSourceConfigured, err |-> ""]
    IN  IF TrimSpace(baseOverride) # <<>>
        THEN configured(parseVersionString(baseOverride))
        ELSE IF Len(releases) > 0
        THEN [version |-> highestEntry(releases).version, source |-> BaseSourceExisting, err |-> ""]
        ELSE [version |-> semverParse(<<"0", ".", "0", ".", "0">>).v, source |-> BaseSourceZero, err |-> ""]

chooseBaseRelease(releases, baseOverride) ==
    LET configured(parsed) ==
            IF ~parsed.ok
            THEN [version |-> ZeroVersion, source |-> "", err |-> "invalid base version"]
            ELSE [version |-> parsed.v, source |-> BaseSourceConfigured, err |-> ""]
    IN  IF Len(releases) > 0
        THEN [version |-> highestEntry(releases).version, source |-> BaseSourceExisting, err |-> ""]
        ELSE IF TrimSpace(baseOverride) # <<>>
        THEN configured(parseVersionString(baseOverride))
        ELSE [version |-> semverParse(<<"0", ".", "0", ".", "0">>).v, source |-> BaseSourceZero, err |-> ""]

bumpVersion(base, intent) ==
    LET next == CASE intent = BumpMajor -> IncrementMajor(base)
                  [] intent = BumpMinor -> IncrementMinor(base)
                  [] OTHER -> IncrementPatch(base)
    IN  [version |-> [next EXCEPT !.Pre = <<>>, !.Build = <<>>], err |-> ""]

\* formatTagName putting a v where no prefix is configured
formatTagName_DefaultV(tagPrefix, version) ==
    (IF TrimSpace(tagPrefix) = <<>> THEN <<"v">> ELSE TrimSpace(tagPrefix)) \o VersionString(version)

formatTagName(tagPrefix, version) == TrimSpace(tagPrefix) \o VersionString(version)

\* floatingTagName without the literal v
floatingTagName_NoV(major) == major

floatingTagName(major) == <<"v">> \o major

floatingTagForMajor(c, major) ==
    IF \E i \in 1..Len(c.floating) : c.floating[i].major = major
    THEN LET i == CHOOSE i \in 1..Len(c.floating) :
                      /\ c.floating[i].major = major
                      /\ \A j \in 1..(i - 1) : c.floating[j].major # major
         IN  [tag |-> c.floating[i].tag, ok |-> TRUE]
    ELSE [tag |-> ZeroTag, ok |-> FALSE]

highestRelease(c) ==
    IF Len(c.releases) = 0 THEN [ok |-> FALSE]
    ELSE [ok |-> TRUE, entry |-> highestEntry(c.releases)]

\* hasValidFloatingForMajor without the guards against empty object ids
hasValidFloatingForMajor_EmptyIDs(c, major) ==
    \E i \in 1..Len(c.floating) :
        /\ c.floating[i].major = major
        /\ \E j \in 1..Len(c.releases) :
              /\ c.releases[j].version.Major = major
              /\ c.releases[j].tag.ObjectID = c.floating[i].tag.ObjectID

hasValidFloatingForMajor(c, major) ==
    \E i \in 1..Len(c.floating) :
        /\ c.floating[i].major = major
        /\ c.floating[i].tag.ObjectID # <<>>
        /\ \E j \in 1..Len(c.releases) :
              /\ c.releases[j].version.Major = major
              /\ c.releases[j].tag.ObjectID # <<>>
              /\ c.releases[j].tag.ObjectID = c.floating[i].tag.ObjectID

\* planFloating looking the existing floating tag up under the major of the
\* highest release instead of the target's
planFloating_BaseMajor(c, target) ==
    LET floating(existing, highest) ==
            [ZeroFloatingPlan EXCEPT
                !.TagName = floatingTagName(target.Major),
                !.Existing = IF existing.ok THEN existing.tag ELSE ZeroTag,
                !.AutoDetectedMajor = IF highest.ok THEN highest.entry.version.Major ELSE Zero,
                !.AutoDetected = IF highest.ok
                                 THEN hasValidFloatingForMajor(c, highest.entry.version.Major)
                                 ELSE FALSE]
        lookup(highest) ==
            floating(floatingTagForMajor(c, IF highest.ok THEN highest.entry.version.Major
                                        ELSE target.Major), highest)
    IN  lookup(highestRelease(c))

planFloating(c, target) ==
    LET floating(existing, highest) ==
            [ZeroFloatingPlan EXCEPT
                !.TagName = floatingTagName(target.Major),
                !.Existing = IF existing.ok THEN existing.tag ELSE ZeroTag,
                !.AutoDetectedMajor = IF highest.ok THEN highest.entry.version.Major ELSE Zero,
                !.AutoDetected = IF highest.ok
                                 THEN hasValidFloatingForMajor(c, highest.entry.version.Major)
                                 ELSE FALSE]
    IN  floating(floatingTagForMajor(c, target.Major), highestRelease(c))

sameBase(left, right) ==
    left.Major = right.Major /\ left.Minor = right.Minor /\ left.Patch = right.Patch

\* rcNumber without the check of the "rc" label
rcNumber_AnyChannel(version) ==
    IF Len(version.Pre) # 2 THEN [ok |-> FALSE, n |-> IntOf(Zero)]
    ELSE LET first  == version.Pre[1]
             second == version.Pre[2]
         IN  IF first.IsNum THEN [ok |-> FALSE, n |-> IntOf(Zero)]
             ELSE IF ~second.IsNum THEN [ok |-> FALSE, n |-> IntOf(Zero)]
             ELSE IF second.VersionNum = Zero THEN [ok |-> FALSE, n |-> IntOf(Zero)]
             ELSE IF NumLT(MaxInt64, second.VersionNum) THEN [ok |-> FALSE, n |-> IntOf(Zero)]
             ELSE [ok |-> TRUE, n |-> IntOf(second.VersionNum)]

rcNumber(version) ==
    IF Len(version.Pre) # 2 THEN [ok |-> FALSE, n |-> IntOf(Zero)]
    ELSE LET first  == version.Pre[1]
             second == version.Pre[2]
         IN  IF first.IsNum THEN [ok |-> FALSE, n |-> IntOf(Zero)]
             ELSE IF ~EqualFold(first.VersionStr, <<"r", "c">>) THEN [ok |-> FALSE, n |-> IntOf(Zero)]
             ELSE IF ~second.IsNum THEN [ok |-> FALSE, n |-> IntOf(Zero)]
             ELSE IF second.VersionNum = Zero THEN [ok |-> FALSE, n |-> IntOf(Zero)]
             ELSE IF NumLT(MaxInt64, second.VersionNum) THEN [ok |-> FALSE, n |-> IntOf(Zero)]
             ELSE [ok |-> TRUE, n |-> IntOf(second.VersionNum)]

RECURSIVE rcMax(_, _)
rcMax(target, prereleases) ==
    IF prereleases = <<>> THEN IntOf(Zero)
    ELSE LET max     == rcMax(target, SubSeq(prereleases, 1, Len(prereleases) - 1))
             version == prereleases[Len(prereleases)]
             number  == rcNumber(version)
         IN  IF ~sameBase(version, target) THEN max
             ELSE IF ~number.ok THEN max
             ELSE IF IntGT(number.n, max) THEN number.n
             ELSE max

\* nextRCNumber that keeps the number seen last instead of the largest one
nextRCNumber_LastSeen(target, prereleases) ==
    LET eligible == {i \in 1..Len(prereleases) :
                        sameBase(prereleases[i], target) /\ rcNumber(prereleases[i]).ok}
    IN  IF eligible = {} THEN IntInc(IntOf(Zero))
        ELSE LET last == CHOOSE i \in eligible : \A j \in eligible : j <= i
             IN  IntInc(rcNumber(prereleases[last]).n)

nextRCNumber(target, prereleases) == IntInc(rcMax(target, prereleases))

\* attachRC without the test rc <= 0
attachRC_Unchecked(target, rc) ==
    LET attach(rcLabel, numberLabel) ==
            IF ~rcLabel.ok THEN [version |-> ZeroVersion, err |-> "building rc label"]
            ELSE IF ~numberLabel.ok THEN [version |-> ZeroVersion, err |-> "building rc number"]
            ELSE [version |-> [target EXCEPT !.Pre = <<rcLabel.pr, numberLabel.pr>>, !.Build = <<>>],
                  err |-> ""]
    IN  attach(NewPRVersion(<<"r", "c">>), NewPRVersion(rc.mag))

attachRC(target, rc) ==
    LET attach(rcLabel, numberLabel) ==
            IF ~rcLabel.ok THEN [version |-> ZeroVersion, err |-> "building rc label"]
            ELSE IF ~numberLabel.ok THEN [version |-> ZeroVersion, err |-> "building rc number"]
            ELSE [version |-> [target EXCEPT !.Pre = <<rcLabel.pr, numberLabel.pr>>, !.Build = <<>>],
                  err |-> ""]
    IN  IF rc.neg \/ rc.mag = Zero THEN [version |-> ZeroVersion, err |-> "invalid rc number"]
        ELSE attach(NewPRVersion(<<"r", "c">>), NewPRVersion(rc.mag))

PlanRelease(tagPrefix, tags, intent, baseOverride) ==
    LET result(catalog, base, next) ==
            IF base.err # "" THEN [res |-> ZeroResult, err |-> base.err]
            ELSE IF next.err # "" THEN [res |-> ZeroResult, err |-> "computing release bump"]
            ELSE [res |-> [Mode |-> ModeRelease,
                           TagName |-> formatTagName(tagPrefix, next.version),
                           Version |-> next.version,
                           ReleaseBase |-> base.version,
                           BaseSource |-> base.source,
                           TargetRelease |-> next.version,
                           RCNumber |-> IntOf(Zero),
                           Floating |-> planFloating(catalog, next.version)],
                  err |-> ""]
        bumped(catalog, base) == result(catalog, base, bumpVersion(base.version, intent))
        planned(catalog) == bumped(catalog, chooseBaseRelease(catalog.releases, baseOverride))
    IN  planned(buildCatalog(tags))

PlanRC(tagPrefix, tags, intent, baseOverride) ==
    LET result(base, target, number, rcVer) ==
            IF base.err # "" THEN [res |-> ZeroResult, err |-> base.err]
            ELSE IF target.err # "" THEN [res |-> ZeroResult, err |-> "computing release bump"]
            ELSE IF rcVer.err # "" THEN [res |-> ZeroResult, err |-> rcVer.err]
            ELSE [res |-> [Mode |-> ModeRC,
                           TagName |-> formatTagName(tagPrefix, rcVer.version),
                           Version |-> rcVer.version,
                           ReleaseBase |-> base.version,
                           BaseSource |-> base.source,
                           TargetRelease |-> target.version,
                           RCNumber |-> number,
                           Floating |-> ZeroFloatingPlan],
                  err |-> ""]
        numbered(base, target, number) ==
            result(base, target, number, attachRC(target.version, number))
        bumped(catalog, base, target) ==
            numbered(base, target, nextRCNumber(target.version, catalog.prereleases))
        based(catalog, base) == bumped(catalog, base, bumpVersion(base.version, intent))
        planned(catalog) == based(catalog, chooseBaseRelease(catalog.releases, baseOverride))
    IN  planned(buildCatalog(tags))

(***************************************************************************)
(* The tag store behind ado.Client                                         *)
(***************************************************************************)
RefNames(store) == {store[i].Name : i \in 1..Len(store)}

\* ListRefsWithPrefix -> convertGitRefs: names and object ids arrive trimmed
convertGitRefs(store) ==
    [i \in 1..Len(store) |->
        [Name |-> TrimSpace(store[i].Name), ObjectID |-> TrimSpace(store[i].ObjectID)]]

\* the store after a successful CreateAnnotatedTag: a new ref refs/tags/<name>
\* reported with the commit it was created on
StoreCreate(store, spec) ==
    Append(store, [Name |-> RefsTagsPrefix \o spec.Name, ObjectID |-> spec.ObjectID])

\* a tag can only be created under a name that is not taken and with the
\* fields buildAnnotatedTag requires
CanCreate(store, spec) ==
    /\ TrimSpace(spec.Name) # <<>>
    /\ TrimSpace(spec.ObjectID) # <<>>
    /\ TrimSpace(spec.TaggerName) # <<>>
    /\ TrimSpace(spec.TaggerEmail) # <<>>
    /\ (RefsTagsPrefix \o spec.Name) \notin RefNames(store)

\* DeleteRef removing the ref whatever its current object id
CanDelete_AnyObjectID(store, name, objectID) ==
    \E i \in 1..Len(store) : store[i].Name = name

\* DeleteRef removes the ref when its current object id matches
CanDelete(store, name, objectID) ==
    \E i \in 1..Len(store) : store[i].Name = name /\ store[i].ObjectID = objectID

StoreDelete(store, name) ==
    LET keep == {i \in 1..Len(store) : store[i].Name # name}
        F[i \in 0..Len(store)] ==
            IF i = 0 THEN <<>>
            ELSE IF i \in keep THEN Append(F[i - 1], store[i]) ELSE F[i - 1]
    IN  F[Len(store)]

(***************************************************************************)
(* internal/services/tagging                                               *)
(***************************************************************************)
toPlannerTags(rs) == [i \in 1..Len(rs) |-> [Name |-> rs[i].Name, ObjectID |-> rs[i].ObjectID]]

\* Service.Plan; listOK is the outcome of ListRefsWithPrefix
ServicePlan(tagPrefix, store, c, listOK) ==
    LET result(tags, out) == [res |-> out.res, err |-> out.err, tags |-> tags]
        planned(tags) ==
            result(tags,
                   CASE c.Mode = ModeRelease -> PlanRelease(tagPrefix, tags, c.Bump, c.BaseVersion)
                     [] c.Mode = ModeRC -> PlanRC(tagPrefix, tags, c.Bump, c.BaseVersion)
                     [] OTHER -> [res |-> ZeroResult, err |-> "invalid mode"])
    IN  IF ~listOK THEN [res |-> ZeroResult, err |-> "listing refs", tags |-> <<>>]
        ELSE planned(toPlannerTags(convertGitRefs(store)))

\* the argument checks with the tagger name looked at before the commit
ValidateCreate_TaggerFirst(c) ==
    IF TrimSpace(c.TaggerName) = <<>> THEN "tagger name is empty"
    ELSE IF TrimSpace(c.CommitSHA) = <<>> THEN "commit sha is empty"
    ELSE IF TrimSpace(c.TaggerEmail) = <<>> THEN "tagger email is empty"
    ELSE ""

\* the argument checks of PlanAndCreate, in order
ValidateCreate(c) ==
    IF TrimSpace(c.CommitSHA) = <<>> THEN "commit sha is empty"
    ELSE IF TrimSpace(c.TaggerName) = <<>> THEN "tagger name is empty"
    ELSE IF TrimSpace(c.TaggerEmail) = <<>> THEN "tagger email is empty"
    ELSE ""

\* the ado.TagSpec of the release (or RC) tag
ReleaseSpec(c, p) ==
    [Name |-> p.TagName, ObjectID |-> TrimSpace(c.CommitSHA), ObjectType |-> "commit",
     Message |-> TrimSpace(c.Message), TaggerName |-> TrimSpace(c.TaggerName),
     TaggerEmail |-> TrimSpace(c.TaggerEmail)]

\* PlanAndCreate without the test of the plan's mode
AppliesFloating_AnyMode(p) == p.Mode \in {ModeRelease, ModeRC}

\* PlanAndCreate: only a release plan reaches applyFloatingTag
AppliesFloating(p) == p.Mode = ModeRelease

\* applyFloatingTag without the guard against an unknown object id
MissingObjectID_Never(p) == FALSE

\* applyFloatingTag: the floating tag to delete has no known object id
MissingObjectID(p) == TrimSpace(p.Floating.Existing.ObjectID) = <<>>

\* applyFloatingTag deciding on the flag alone
FloatingEnabled_FlagOnly(c, p) == c.UseFloatingTags

\* applyFloatingTag: enabled := cfg.UseFloatingTags || plan.Floating.AutoDetected
FloatingEnabled(c, p) == c.UseFloatingTags \/ p.Floating.AutoDetected

\* applyFloatingTag: the name the floating tag is created under
FloatingName(p) ==
    IF TrimSpace(p.Floating.TagName) = <<>> THEN <<"v">> \o p.Version.Major
    ELSE TrimSpace(p.Floating.TagName)

\* applyFloatingTag building the floating tag on the commit of the floating
\* tag it replaces
FloatingSpec_ExistingCommit(c, p) ==
    [ReleaseSpec(c, p) EXCEPT !.Name = FloatingName(p),
                              !.ObjectID = IF TrimSpace(p.Floating.Existing.Name) = <<>>
                                           THEN @
                                           ELSE TrimSpace(p.Floating.Existing.ObjectID)]

\* applyFloatingTag: spec := releaseSpec; spec.Name = floatingName
FloatingSpec(c, p) == [ReleaseSpec(c, p) EXCEPT !.Name = FloatingName(p)]

(***************************************************************************)
(* Pull request labelling (internal/domain/branchmap,                      *)
(* internal/domain/labels, internal/services/prlabel)                      *)
(*   prLabels  the labels on the pull request, in listing order            *)
(*   resolver  the labels.Resolver the command was built with              *)
(*   apply     the last run of Apply and the count of labels added so far  *)
(***************************************************************************)
defaultMapping ==
    [MajorPrefixes |-> <<<<"b", "r", "e", "a", "k", "i", "n", "g", "/">>, <<"m", "a", "j", "o", "r", "/">>>>,
     MinorPrefixes |-> <<<<"f", "e", "a", "t", "u", "r", "e", "/">>, <<"m", "i", "n", "o", "r", "/">>>>,
     PatchPrefixes |-> <<<<"b", "u", "g", "f", "i", "x", "/">>, <<"f", "i", "x", "/">>, <<"h", "o", "t", "f", "i", "x", "/">>, <<"c", "h", "o", "r", "e", "/">>, <<"p", "a", "t", "c", "h", "/">>>>]

\* the first prefix of the list the branch starts with
matchPrefix(branch, prefixes) ==
    LET hits == {i \in 1..Len(prefixes) : HasPrefix(branch, prefixes[i])}
    IN  IF hits = {} THEN [prefix |-> <<>>, ok |-> FALSE]
        ELSE [prefix |-> prefixes[CHOOSE i \in hits : \A j \in hits : i <= j], ok |-> TRUE]

\* branchmap.Resolver.Resolve under the default mapping
Resolve(branch) ==
    IF matchPrefix(branch, defaultMapping.MajorPrefixes).ok
    THEN [bump |-> BumpMajor, prefix |-> matchPrefix(branch, defaultMapping.MajorPrefixes).prefix, matched |-> TRUE]
    ELSE IF matchPrefix(branch, defaultMapping.MinorPrefixes).ok
    THEN [bump |-> BumpMinor, prefix |-> matchPrefix(branch, defaultMapping.MinorPrefixes).prefix, matched |-> TRUE]
    ELSE IF matchPrefix(branch, defaultMapping.PatchPrefixes).ok
    THEN [bump |-> BumpPatch, prefix |-> matchPrefix(branch, defaultMapping.PatchPrefixes).prefix, matched |-> TRUE]
    ELSE [bump |-> BumpPatch, prefix |-> <<>>, matched |-> FALSE]

chooseLabel(override, fallback) ==
    IF TrimSpace(override) # <<>> THEN TrimSpace(override) ELSE fallback

\* labels.NewResolver; the configured labels differ from each other, so
\* every key of lower has one bump
labelsNewResolver(c) ==
    LET build(labels) ==
            [labels |-> labels,
             lower |-> [k \in {ToLower(labels[b]) : b \in DOMAIN labels} |->
                          CHOOSE b \in DOMAIN labels : ToLower(labels[b]) = k]]
        named(pre) ==
            build([major |-> chooseLabel(c.MajorLabel, pre \o <<"m", "a", "j", "o", "r">>),
                   minor |-> chooseLabel(c.MinorLabel, pre \o <<"m", "i", "n", "o", "r">>),
                   patch |-> chooseLabel(c.PatchLabel, pre \o <<"p", "a", "t", "c", "h">>)])
    IN  named(IF c.Prefix = <<>> THEN <<"s", "e", "m", "v", "e", "r", "-">> ELSE c.Prefix)

LabelFor(r, b) == IF b \in DOMAIN r.labels THEN r.labels[b] ELSE r.labels[BumpPatch]

DecisionNoop == "noop"

DecisionAddExpected == "add"

DecisionConflict == "conflict"

semverLabels(r, existing) ==
    SelectSeq(existing, LAMBDA lbl : lbl # <<>> /\ ToLower(lbl) \in DOMAIN r.lower)

\* Decide adding the expected label next to other semver labels
Decide_AddOnConflict(r, existing, desired) ==
    LET decide(expected, found) ==
            IF \E i \in 1..Len(found) : EqualFold(found[i], expected)
            THEN [Decision |-> DecisionNoop, ExpectedLabel |-> expected, Existing |-> found]
            ELSE [Decision |-> DecisionAddExpected, ExpectedLabel |-> expected, Existing |-> <<>>]
    IN  decide(LabelFor(r, desired), semverLabels(r, existing))

Decide(r, existing, desired) ==
    LET decide(expected, found) ==
            IF \E i \in 1..Len(found) : EqualFold(found[i], expected)
            THEN [Decision |-> DecisionNoop, ExpectedLabel |-> expected, Existing |-> found]
            ELSE IF Len(found) > 0
            THEN [Decision |-> DecisionConflict, ExpectedLabel |-> expected, Existing |-> found]
            ELSE [Decision |-> DecisionAddExpected, ExpectedLabel |-> expected, Existing |-> <<>>]
    IN  decide(LabelFor(r, desired), semverLabels(r, existing))

\* ListPRLabels -> labelNames: trimmed names, blank ones dropped
labelNames(store) ==
    SelectSeq([i \in 1..Len(store) |-> TrimSpace(store[i])], LAMBDA name : name # <<>>)

\* AddPRLabel: the trimmed label must not be empty
CanAddLabel(label) == TrimSpace(label) # <<>>

\* the pull request after CreatePullRequestLabel; a label is on it once
StoreAddLabel(store, label) ==
    IF \E i \in 1..Len(store) : store[i] = TrimSpace(label) THEN store
    ELSE Append(store, TrimSpace(label))

ZeroApplyResult ==
    [Bump |-> "", BranchMatched |-> FALSE, MatchedPrefix |-> <<>>, Decision |-> DecisionNoop,
     ExpectedLabel |-> <<>>, ExistingSemver |-> <<>>, LabelAdded |-> FALSE]

ZeroApplyConfig == [PRID |-> 0, Branch |-> <<>>]

NoApply ==
    [n |-> 0, cfg |-> ZeroApplyConfig, before |-> <<>>, res |-> ZeroApplyResult, err |-> "",
     calls |-> <<>>, total |-> 0]

ZeroResolver == [labels |-> [major |-> <<>>, minor |-> <<>>, patch |-> <<>>], lower |-> <<>>]

\* labels.Resolver.BumpForLabel
BumpForLabel(r, label) ==
    IF label = <<>> THEN [bump |-> "", ok |-> FALSE]
    ELSE IF ToLower(label) \in DOMAIN r.lower
    THEN [bump |-> r.lower[ToLower(label)], ok |-> TRUE]
    ELSE [bump |-> "", ok |-> FALSE]

\* bump.weight
weight(b) ==
    CASE b = BumpMajor -> 3
      [] b = BumpMinor -> 2
      [] b = BumpPatch -> 1
      [] OTHER -> 0

HigherImpactThan(b, other) == weight(b) > weight(other)

\* bump.Default
Default == BumpPatch

\* bump.Max keeping the candidate seen last
Max_LastSeen(values) == IF values = <<>> THEN Default ELSE values[Len(values)]

\* bump.Max: the loop over the values, starting from the default
Max(values) ==
    LET F[k \in 0..Len(values)] ==
            IF k = 0 THEN Default
            ELSE IF HigherImpactThan(values[k], F[k - 1]) THEN values[k] ELSE F[k - 1]
    IN  F[Len(values)]

DefaultReasonNone == ""

DefaultReasonNoPullRequest == "no-pull-request"

DefaultReasonNoSemverLabels == "no-semver-labels"

ZeroInferResult ==
    [Bump |-> "", PRID |-> 0, CommitSHA |-> <<>>, Labels |-> <<>>, SemverLabels |-> <<>>,
     Defaulted |-> FALSE, DefaultReason |-> DefaultReasonNone]

ZeroInferConfig == [CommitSHA |-> <<>>, Strict |-> FALSE]

\* no infer-bump run yet
NoInfer ==
    [done |-> FALSE, cfg |-> ZeroInferConfig, find |-> "", listed |-> FALSE,
     res |-> ZeroInferResult, err |-> ""]

\* the tag commands touch no pull request
NoPullRequest ==
    /\ prLabels = <<>>
    /\ resolver = ZeroResolver
    /\ apply = NoApply
    /\ infer = NoInfer

(***************************************************************************)
(* State machine                                                           *)
(*   refs    the tag store, in listing order                               *)
(*   prefix  the tag prefix the planner was built with                     *)
(*   pc      per process, the position inside the one call it makes        *)
(*   cfg     per process, the configuration of its call                    *)
(*   snap    per process, the tags the call listed                         *)
(*   plan    per process, the local plan of PlanAndCreate                  *)
(*   ret     per process, what the call returned                           *)
(*   log     per process, the store operations the call issued, in order   *)
(*   hist    what the previous invocation did, and how many invocations    *)
(*           there were before the current one                             *)
(***************************************************************************)
Procs == {1, 2}

MaxTags == 3

MaxStore == 2

MaxCalls == 2

ZeroConfig ==
    [Mode |-> "", Bump |-> "", BaseVersion |-> <<>>, UseFloatingTags |-> FALSE,
     CommitSHA |-> <<>>, Message |-> <<>>, TaggerName |-> <<>>, TaggerEmail |-> <<>>]

NoReturn == [call |-> "", res |-> ZeroResult, err |-> ""]

NoHistory ==
    [call |-> "", ok |-> FALSE, mode |-> "", floated |-> FALSE, version |-> ZeroVersion,
     bump |-> "", flag |-> FALSE, lost |-> <<>>]

\* ordered selections of at most k refs with pairwise different names
Snapshots(pool, k) ==
    {s \in UNION {[1..n -> pool] : n \in 0..k} :
        \A i, j \in 1..Len(s) : i # j => s[i].Name # s[j].Name}

InitCommon ==
    /\ pc = [r \in Procs |-> "start"]
    /\ cfg = [r \in Procs |-> ZeroConfig]
    /\ snap = [r \in Procs |-> <<>>]
    /\ plan = [r \in Procs |-> ZeroResult]
    /\ ret = [r \in Procs |-> NoReturn]
    /\ log = [r \in Procs |-> <<>>]
    /\ hist = [last |-> NoHistory, n |-> 0]

Bumps == {BumpMajor, BumpMinor, BumpPatch}

\* base overrides: none, blank, "v0.9.0", "1.0.0-rc.1+b", "bad", "refs/tags/v0.9.0"
Overrides ==
    {<<>>, <<" ">>, <<"v", "0", ".", "9", ".", "0">>,
     <<"1", ".", "0", ".", "0", "-", "r", "c", ".", "1", "+", "b">>, <<"b", "a", "d">>,
     RefsTagsPrefix \o <<"v", "0", ".", "9", ".", "0">>}

PlanOnly(mode, intent, base) ==
    [ZeroConfig EXCEPT !.Mode = mode, !.Bump = intent, !.BaseVersion = base]

PlanConfigs ==
    {PlanOnly(m, b, o) : m \in {ModeRelease, ModeRC}, b \in Bumps, o \in Overrides}
      \cup {PlanOnly("bad", BumpPatch, <<>>)}

\* RC planning on top of the tags of the store
RCConfigs == {PlanOnly(ModeRC, b, <<>>) : b \in Bumps}

\* Service.Plan as the call of a process (the dry run of create-tag)
PlanCall(r, configs) ==
    /\ pc[r] = "start"
    /\ \E c \in configs, listOK \in BOOLEAN :
          LET returned(out) ==
                  /\ ret' = [ret EXCEPT ![r] = [call |-> "Plan", res |-> out.res, err |-> out.err]]
                  /\ snap' = [snap EXCEPT ![r] = out.tags]
          IN  /\ returned(ServicePlan(prefix, refs, c, listOK))
              /\ cfg' = [cfg EXCEPT ![r] = c]
    /\ pc' = [pc EXCEPT ![r] = "done"]
    /\ UNCHANGED <<refs, prefix, plan, log, hist, prLabels, resolver, apply, infer>>

\* PlanAndCreate handing back its local plan together with the error
ErrorResult_LocalPlan(p) == p

\* PlanAndCreate: return tagplan.Result{}, err
ErrorResult(p) == ZeroResult

\* return from PlanAndCreate
Return(r, res, err) ==
    /\ ret' = [ret EXCEPT ![r] = [call |-> "PlanAndCreate", res |-> res, err |-> err]]
    /\ pc' = [pc EXCEPT ![r] = "done"]

\* the commit the n-th invocation tags: every pipeline run has a new merge commit
CommitOf(n) == <<"c", DigitChars[n + 1]>>

CreateConfig(mode, intent, floating, commit) ==
    [Mode |-> mode, Bump |-> intent, BaseVersion |-> <<>>, UseFloatingTags |-> floating,
     CommitSHA |-> commit, Message |-> <<"m">>, TaggerName |-> <<"b">>, TaggerEmail |-> <<"e">>]

CreateConfigs(commit) ==
    {CreateConfig(m, b, f, commit) :
        m \in {ModeRelease, ModeRC}, b \in {BumpMajor, BumpPatch}, f \in BOOLEAN}
      \cup {[CreateConfig(ModeRelease, BumpPatch, TRUE, commit) EXCEPT !.CommitSHA = <<" ">>],
            [CreateConfig(ModeRelease, BumpPatch, TRUE, commit) EXCEPT !.TaggerName = <<>>],
            [CreateConfig(ModeRelease, BumpPatch, TRUE, commit) EXCEPT !.TaggerEmail = <<" ">>],
            [CreateConfig(ModeRelease, BumpPatch, TRUE, commit) EXCEPT
                !.CommitSHA = <<>>, !.TaggerName = <<" ">>, !.TaggerEmail = <<>>],
            [CreateConfig(ModeRC, BumpPatch, FALSE, commit) EXCEPT
                !.TaggerName = <<" ">>, !.TaggerEmail = <<>>],
            [CreateConfig(ModeRelease, BumpPatch, TRUE, commit) EXCEPT !.BaseVersion = <<"b", "a", "d">>]}

\* PlanAndCreate up to the first store write: s.Plan and the argument checks
PACPlanOf(r, configs) ==
    /\ pc[r] = "start"
    /\ \E c \in configs, listOK \in BOOLEAN :
          LET planned(out) ==
                  /\ snap' = [snap EXCEPT ![r] = out.tags]
                  /\ IF out.err # ""
                     THEN /\ Return(r, ZeroResult, out.err)
                          /\ UNCHANGED plan
                     ELSE IF ValidateCreate(c) # ""
                     THEN /\ Return(r, ErrorResult(out.res), ValidateCreate(c))
                          /\ plan' = [plan EXCEPT ![r] = out.res]
                     ELSE /\ pc' = [pc EXCEPT ![r] = "create"]
                          /\ plan' = [plan EXCEPT ![r] = out.res]
                          /\ UNCHANGED ret
          IN  /\ cfg' = [cfg EXCEPT ![r] = c]
              /\ planned(ServicePlan(prefix, refs, c, listOK))
    /\ UNCHANGED <<refs, prefix, log, hist, prLabels, resolver, apply, infer>>

ZeroSpec ==
    [Name |-> <<>>, ObjectID |-> <<>>, ObjectType |-> "", Message |-> <<>>,
     TaggerName |-> <<>>, TaggerEmail |-> <<>>]

LogCreate(spec, ok) == [op |-> "create", name |-> spec.Name, objectID |-> spec.ObjectID, spec |-> spec, ok |-> ok]

LogDelete(name, objectID, ok) == [op |-> "delete", name |-> name, objectID |-> objectID, spec |-> ZeroSpec, ok |-> ok]

\* the invocations of one pipeline run after the other
PACPlan(r) == PACPlanOf(r, CreateConfigs(CommitOf(hist.n)))

\* CreateAnnotatedTag of the release / RC tag, then applyFloatingTag up to its
\* first store operation
PACCreate(r) ==
    /\ pc[r] = "create"
    /\ LET c    == cfg[r]
           p    == plan[r]
           spec == ReleaseSpec(c, p)
       IN  \E ok \in BOOLEAN :
             /\ ok => CanCreate(refs, spec)
             /\ log' = [log EXCEPT ![r] = Append(@, LogCreate(spec, ok))]
             /\ IF ~ok
                THEN /\ Return(r, ErrorResult(p), "creating annotated tag")
                     /\ UNCHANGED <<refs, plan>>
                ELSE /\ refs' = StoreCreate(refs, spec)
                     /\ IF ~AppliesFloating(p) \/ ~FloatingEnabled(c, p)
                        THEN /\ Return(r, p, "")
                             /\ UNCHANGED plan
                        ELSE LET q == [p EXCEPT !.Floating.Enabled = TRUE,
                                                !.Floating.TagName = FloatingName(p)]
                             IN  /\ plan' = [plan EXCEPT ![r] = q]
                                 /\ IF TrimSpace(q.Floating.Existing.Name) = <<>>
                                    THEN /\ pc' = [pc EXCEPT ![r] = "floating"]
                                         /\ UNCHANGED ret
                                    ELSE IF MissingObjectID(q)
                                    THEN Return(r, ErrorResult(q), "floating tag missing object id")
                                    ELSE /\ pc' = [pc EXCEPT ![r] = "delete"]
                                         /\ UNCHANGED ret
    /\ UNCHANGED <<prefix, cfg, snap, hist, prLabels, resolver, apply, infer>>

\* applyFloatingTag: DeleteRef of the existing floating tag
PACDelete(r) ==
    /\ pc[r] = "delete"
    /\ LET p        == plan[r]
           name     == TrimSpace(p.Floating.Existing.Name)
           objectID == TrimSpace(p.Floating.Existing.ObjectID)
       IN  \E ok \in BOOLEAN :
             /\ ok => CanDelete(refs, name, objectID)
             /\ log' = [log EXCEPT ![r] = Append(@, LogDelete(name, objectID, ok))]
             /\ IF ~ok
                THEN /\ Return(r, ErrorResult(p), "deleting floating tag")
                     /\ UNCHANGED <<refs, plan>>
                ELSE /\ refs' = StoreDelete(refs, name)
                     /\ plan' = [plan EXCEPT ![r].Floating.DeletedExisting = TRUE]
                     /\ pc' = [pc EXCEPT ![r] = "floating"]
                     /\ UNCHANGED ret
    /\ UNCHANGED <<prefix, cfg, snap, hist, prLabels, resolver, apply, infer>>

\* applyFloatingTag: CreateAnnotatedTag of the floating tag
PACFloating(r) ==
    /\ pc[r] = "floating"
    /\ LET c    == cfg[r]
           p    == plan[r]
           spec == FloatingSpec(c, p)
       IN  \E ok \in BOOLEAN :
             /\ ok => CanCreate(refs, spec)
             /\ log' = [log EXCEPT ![r] = Append(@, LogCreate(spec, ok))]
             /\ IF ~ok
                THEN /\ Return(r, ErrorResult(p), "creating floating tag")
                     /\ UNCHANGED <<refs, plan>>
                ELSE /\ refs' = StoreCreate(refs, spec)
                     /\ plan' = [plan EXCEPT ![r].Floating.Created = TRUE]
                     /\ Return(r, [p EXCEPT !.Floating.Created = TRUE], "")
    /\ UNCHANGED <<prefix, cfg, snap, hist, prLabels, resolver, apply, infer>>

\* what the next invocation can still be compared with
Summary(r) ==
    [call |-> ret[r].call, ok |-> ret[r].err = "", mode |-> ret[r].res.Mode,
     floated |-> ret[r].res.Floating.Created, version |-> ret[r].res.Version,
     bump |-> cfg[r].Bump, flag |-> cfg[r].UseFloatingTags,
     lost |-> IF /\ Len(log[r]) = 3
                 /\ log[r][2].op = "delete" /\ log[r][2].ok
                 /\ ~log[r][3].ok
              THEN plan[r].Version.Major
              ELSE <<>>]

\* the process exits and the next invocation of the tool starts
Restart(r) ==
    /\ pc[r] = "done"
    /\ hist.n + 1 < MaxCalls
    /\ hist' = [last |-> Summary(r), n |-> hist.n + 1]
    /\ pc' = [pc EXCEPT ![r] = "start"]
    /\ cfg' = [cfg EXCEPT ![r] = ZeroConfig]
    /\ snap' = [snap EXCEPT ![r] = <<>>]
    /\ plan' = [plan EXCEPT ![r] = ZeroResult]
    /\ ret' = [ret EXCEPT ![r] = NoReturn]
    /\ log' = [log EXCEPT ![r] = <<>>]
    /\ UNCHANGED <<refs, prefix, prLabels, resolver, apply, infer>>

PlanPrefixes == {<<"v">>}

ServicePrefixes == {<<>>, <<"v">>, <<"r", "-">>}

InitPlan ==
    /\ refs \in Snapshots(PlanPool, MaxTags)
    /\ prefix \in {NewPlanner(p) : p \in PlanPrefixes}
    /\ InitCommon
    /\ NoPullRequest

InitRC ==
    /\ refs \in Snapshots(RCPool, MaxTags)
    /\ prefix \in {NewPlanner(p) : p \in PlanPrefixes}
    /\ InitCommon
    /\ NoPullRequest

InitService ==
    /\ refs \in Snapshots(ServicePool, MaxStore)
    /\ prefix \in {NewPlanner(p) : p \in ServicePrefixes}
    /\ InitCommon
    /\ NoPullRequest

NextPlan == \E r \in {1} : PlanCall(r, PlanConfigs)

NextRC == \E r \in {1} : PlanCall(r, RCConfigs)

NextService ==
    \E r \in {1} :
        \/ PACPlan(r)
        \/ PACCreate(r)
        \/ PACDelete(r)
        \/ PACFloating(r)
        \/ Restart(r)

SpecPlan == InitPlan /\ [][NextPlan]_vars

SpecRC == InitRC /\ [][NextRC]_vars

SpecService == InitService /\ [][NextService]_vars

\* planning under different tag prefixes: none, "v" and " r- "
FormatPrefixes == {<<>>, <<"v">>, <<" ", "r", "-", " ">>}

\* a release, two release candidates of the next patch and a floating tag
FormatPool ==
    {Ref(<<"v", "1", ".", "2", ".", "3">>, <<"a">>),
     Ref(<<"v", "1", ".", "2", ".", "4", "-", "r", "c", ".", "1">>, <<"a">>),
     Ref(<<"v", "1", ".", "2", ".", "4", "-", "r", "c", ".", "2">>, <<"b">>),
     Ref(<<"v", "1">>, <<"a">>)}

FormatConfigs == {PlanOnly(m, b, <<>>) : m \in {ModeRelease, ModeRC}, b \in Bumps}

InitFormat ==
    /\ refs \in Snapshots(FormatPool, MaxTags)
    /\ prefix \in {NewPlanner(p) : p \in FormatPrefixes}
    /\ InitCommon
    /\ NoPullRequest

NextFormat == \E r \in {1} : PlanCall(r, FormatConfigs)

SpecFormat == InitFormat /\ [][NextFormat]_vars

\* runs of PlanAndCreate on stores with several names of one floating major
InitMove ==
    /\ refs \in Snapshots(MovePool, MaxStore)
    /\ prefix \in {NewPlanner(p) : p \in PlanPrefixes}
    /\ InitCommon
    /\ NoPullRequest

SpecMove == InitMove /\ [][NextService]_vars

\* two pipeline runs at the same time, each a release run on its own commit
ConcurrentConfigs(r) ==
    {CreateConfig(ModeRelease, b, f, CommitOf(r)) : b \in {BumpMinor, BumpPatch}, f \in BOOLEAN}

InitConcurrent ==
    /\ refs \in Snapshots(ConcurrentPool, MaxStore)
    /\ prefix \in {NewPlanner(p) : p \in PlanPrefixes}
    /\ InitCommon
    /\ NoPullRequest

NextConcurrent ==
    \E r \in Procs :
        \/ PACPlanOf(r, ConcurrentConfigs(r))
        \/ PACCreate(r)
        \/ PACDelete(r)
        \/ PACFloating(r)

SpecConcurrent == InitConcurrent /\ [][NextConcurrent]_vars

\* planning with every base override on snapshots with and without a release
InitOverride ==
    /\ refs \in Snapshots(OverridePool, MaxTags)
    /\ prefix \in {NewPlanner(p) : p \in PlanPrefixes}
    /\ InitCommon
    /\ NoPullRequest

NextOverride == \E r \in {1} : PlanCall(r, PlanConfigs)

SpecOverride == InitOverride /\ [][NextOverride]_vars

\* planning on snapshots with tags of every category
InitCatalog ==
    /\ refs \in Snapshots(CatalogPool, MaxTags)
    /\ prefix \in {NewPlanner(p) : p \in PlanPrefixes}
    /\ InitCommon
    /\ NoPullRequest

NextCatalog == \E r \in {1} : PlanCall(r, FormatConfigs)

SpecCatalog == InitCatalog /\ [][NextCatalog]_vars

\* pull requests the pr-label command runs on
MaxLabels == 2

MaxApply == 3

LabelPool ==
    {<<"n", "e", "e", "d", "s", "-", "r", "e", "v", "i", "e", "w">>, <<"s", "e", "m", "v", "e", "r", "-", "m", "a", "j", "o", "r">>, <<"S", "e", "m", "v", "e", "r", "-", "M", "i", "n", "o", "r">>, <<"f", "e", "a", "t", "u", "r", "e">>, <<"s", "v", "-", "p", "a", "t", "c", "h">>}

LabelConfigs ==
    {[Prefix |-> <<"s", "e", "m", "v", "e", "r", "-">>, MajorLabel |-> <<>>, MinorLabel |-> <<>>, PatchLabel |-> <<>>],
     [Prefix |-> <<"s", "v", "-">>, MajorLabel |-> <<>>, MinorLabel |-> <<"F", "e", "a", "t", "u", "r", "e">>, PatchLabel |-> <<>>]}

Branches == {<<"f", "e", "a", "t", "u", "r", "e", "/", "f", "o", "o">>, <<"f", "i", "x", "/", "x">>, <<"m", "a", "j", "o", "r", "/", "x">>, <<"m", "a", "i", "n">>, <<" ">>}

ApplyConfigs ==
    {[PRID |-> 42, Branch |-> b] : b \in Branches} \cup {[PRID |-> 0, Branch |-> <<"f", "i", "x", "/", "x">>]}

\* prlabel.Service.Apply, one run of the pr-label command
Apply ==
    /\ apply.n < MaxApply
    /\ \E c \in ApplyConfigs, listOK \in BOOLEAN, addOK \in BOOLEAN :
          LET run(res, err, calls, store) ==
                  /\ apply' = [n |-> apply.n + 1, cfg |-> c, before |-> prLabels, res |-> res,
                               err |-> err, calls |-> calls,
                               total |-> apply.total + (IF store = prLabels THEN 0 ELSE 1)]
                  /\ prLabels' = store
              decided(result, decision) ==
                  LET out == [result EXCEPT !.Decision = decision.Decision,
                                            !.ExpectedLabel = decision.ExpectedLabel,
                                            !.ExistingSemver = decision.Existing]
                  IN  IF decision.Decision # DecisionAddExpected
                      THEN run(out, "", <<>>, prLabels)
                      ELSE IF addOK /\ CanAddLabel(decision.ExpectedLabel)
                      THEN run([out EXCEPT !.LabelAdded = TRUE], "", <<decision.ExpectedLabel>>,
                               StoreAddLabel(prLabels, decision.ExpectedLabel))
                      ELSE run(out, "adding pr label", <<decision.ExpectedLabel>>, prLabels)
              listed(result) ==
                  IF ~listOK THEN run(result, "listing pr labels", <<>>, prLabels)
                  ELSE decided(result, Decide(resolver, labelNames(prLabels), result.Bump))
              resolved(match) ==
                  listed([ZeroApplyResult EXCEPT !.Bump = match.bump,
                                                 !.BranchMatched = match.matched,
                                                 !.MatchedPrefix = match.prefix])
          IN  IF c.PRID <= 0 THEN run(ZeroApplyResult, "invalid pr id", <<>>, prLabels)
              ELSE IF TrimSpace(c.Branch) = <<>>
              THEN run(ZeroApplyResult, "empty branch", <<>>, prLabels)
              ELSE resolved(Resolve(TrimSpace(c.Branch)))
    /\ UNCHANGED <<refs, prefix, pc, cfg, snap, plan, ret, log, hist, resolver, infer>>

\* labels on the pull request before the first run: different names
LabelSets(pool, k) ==
    {s \in UNION {[1..n -> pool] : n \in 0..k} : \A i, j \in 1..Len(s) : i # j => s[i] # s[j]}

InitLabel ==
    /\ refs = <<>>
    /\ prefix = <<"v">>
    /\ InitCommon
    /\ prLabels \in LabelSets(LabelPool, MaxLabels)
    /\ resolver \in {labelsNewResolver(c) : c \in LabelConfigs}
    /\ apply = NoApply
    /\ infer = NoInfer

NextLabel == Apply

SpecLabel == InitLabel /\ [][NextLabel]_vars

\* infer-bump: the merge commit and the strict flag
InferConfigs == {[CommitSHA |-> c, Strict |-> st] : c \in {<<"c", "0">>, <<" ">>}, st \in BOOLEAN}

\* FindPullRequestByMergeCommit: a pull request, ErrPullRequestNotFound, or
\* a failed query
FindOutcomes == {"found", "not-found", "failed"}

\* inferbump.Service.Resolve, one run of the infer-bump command
InferResolve ==
    /\ \E c \in InferConfigs, find \in FindOutcomes, listOK \in BOOLEAN :
          LET run(res, err) ==
                  infer' = [done |-> TRUE, cfg |-> c, find |-> find, listed |-> listOK,
                            res |-> res, err |-> err]
              candidates(found) ==
                  [i \in 1..Len(found) |-> BumpForLabel(resolver, found[i]).bump]
              labelled(result, names, found) ==
                  IF Len(found) = 0
                  THEN run([result EXCEPT !.Labels = names, !.Bump = Default, !.Defaulted = TRUE,
                                          !.DefaultReason = DefaultReasonNoSemverLabels], "")
                  ELSE run([result EXCEPT !.Labels = names, !.SemverLabels = found,
                                          !.Bump = Max(candidates(found))], "")
              listing(result, names) ==
                  labelled(result, names,
                           SelectSeq(names, LAMBDA lbl : BumpForLabel(resolver, lbl).ok))
              searched(result) ==
                  IF find = "not-found" /\ ~c.Strict
                  THEN run([result EXCEPT !.Bump = Default, !.Defaulted = TRUE,
                                          !.DefaultReason = DefaultReasonNoPullRequest], "")
                  ELSE IF find = "not-found"
                  THEN run(ZeroInferResult, "finding pull request by merge commit: not found")
                  ELSE IF find = "failed"
                  THEN run(ZeroInferResult, "finding pull request by merge commit: query failed")
                  ELSE IF ~listOK
                  THEN run([result EXCEPT !.PRID = 42], "listing pull request labels")
                  ELSE listing([result EXCEPT !.PRID = 42], labelNames(prLabels))
          IN  IF TrimSpace(c.CommitSHA) = <<>>
              THEN run(ZeroInferResult, "empty commit sha")
              ELSE searched([ZeroInferResult EXCEPT !.CommitSHA = TrimSpace(c.CommitSHA)])
    /\ UNCHANGED <<refs, prefix, pc, cfg, snap, plan, ret, log, hist, prLabels, resolver, apply>>

InitInfer ==
    /\ refs = <<>>
    /\ prefix = <<"v">>
    /\ InitCommon
    /\ prLabels \in LabelSets(LabelPool, MaxLabels)
    /\ resolver \in {labelsNewResolver(c) : c \in LabelConfigs}
    /\ apply = NoApply
    /\ infer = NoInfer

NextInfer == InferResolve

SpecInfer == InitInfer /\ [][NextInfer]_vars

(***************************************************************************)
(* Properties                                                              *)
(***************************************************************************)
Remove(seq, i) == SubSeq(seq, 1, i - 1) \o SubSeq(seq, i + 1, Len(seq))

\* a finished Service.Plan call that got as far as the planner
Planned(r, mode) ==
    /\ pc[r] = "done"
    /\ ret[r].call = "Plan"
    /\ ret[r].err # "listing refs"
    /\ cfg[r].Mode = mode

PlannedOK(r, mode) == Planned(r, mode) /\ ret[r].err = ""

\* the planner call of the finished Service.Plan of process r, on other tags
Replan(r, tags) ==
    IF cfg[r].Mode = ModeRelease
    THEN PlanRelease(prefix, tags, cfg[r].Bump, cfg[r].BaseVersion)
    ELSE PlanRC(prefix, tags, cfg[r].Bump, cfg[r].BaseVersion)

IsReleaseTag(tag) == parseSemverTag(tag.Name).ok /\ parseSemverTag(tag.Name).v.Pre = <<>>

IsPreReleaseTag(tag) == parseSemverTag(tag.Name).ok /\ parseSemverTag(tag.Name).v.Pre # <<>>

ReleaseIdx(tags) == {i \in 1..Len(tags) : IsReleaseTag(tags[i])}

VersionOf(tag) == parseSemverTag(tag.Name).v

\* the positions of the snapshot that hold a release of maximal precedence
HighestIdx(tags) ==
    {i \in ReleaseIdx(tags) :
        \A j \in ReleaseIdx(tags) : VersionCompare(VersionOf(tags[j]), VersionOf(tags[i])) <= 0}

\* C1: whenever the snapshot holds a release tag, PlanRelease succeeds and the
\* planned Version is strictly greater than every release of the snapshot
C1_ReleaseExceedsAll ==
    \A r \in Procs :
        (Planned(r, ModeRelease) /\ ReleaseIdx(snap[r]) # {}) =>
            /\ ret[r].err = ""
            /\ \A i \in ReleaseIdx(snap[r]) :
                  VersionCompare(ret[r].res.Version, VersionOf(snap[r][i])) = 1

\* base selection is EXISTING > CONFIGURED > ZERO_DEFAULT; only tags
\* without pre-release identifiers count as releases
C2_BasePrecedence ==
    \A r \in Procs :
        (pc[r] = "done" /\ ret[r].call = "Plan" /\ ret[r].err = "") =>
            LET tags     == snap[r]
                override == cfg[r].BaseVersion
                res      == ret[r].res
            IN  IF ReleaseIdx(tags) # {}
                THEN /\ res.BaseSource = BaseSourceExisting
                     /\ \E i \in HighestIdx(tags) : res.ReleaseBase = VersionOf(tags[i])
                ELSE IF TrimSpace(override) # <<>>
                THEN /\ res.BaseSource = BaseSourceConfigured
                     /\ parseVersionString(override).ok
                     /\ res.ReleaseBase = parseVersionString(override).v
                ELSE /\ res.BaseSource = BaseSourceZero
                     /\ res.ReleaseBase = ZeroVersion

\* all four combinations are covered: a planner error occurs only for an
\* override that is needed and does not parse
C2_NoErrorUnlessBadOverride ==
    \A r \in Procs :
        (Planned(r, ModeRelease) /\ ret[r].err # "") =>
            /\ ReleaseIdx(snap[r]) = {}
            /\ TrimSpace(cfg[r].BaseVersion) # <<>>
            /\ ~parseVersionString(cfg[r].BaseVersion).ok

\* C2: the base is the highest release if the snapshot has one, else the
\* configured base version, else 0.0.0, with BaseSource saying which;
\* pre-release tags never count as releases, and planning fails only for a
\* configured base that is needed and does not parse
C2_Theorem == C2_BasePrecedence /\ C2_NoErrorUnlessBadOverride

C2_Witness ==
    /\ PlannedOK(1, ModeRelease)
    /\ ret[1].res.BaseSource = BaseSourceConfigured
    /\ \E i \in 1..Len(snap[1]) : IsPreReleaseTag(snap[1][i])

\* the bumped release a call with this snapshot is aimed at
TargetOf(r) ==
    bumpVersion(chooseBaseRelease(buildCatalog(snap[r]).releases, cfg[r].BaseVersion).version,
                cfg[r].Bump).version

\* <target>-rc.N with rc in any case and 1 <= N <= MaxInt64
EligibleRC(tag, target) ==
    LET v == VersionOf(tag)
    IN  /\ IsPreReleaseTag(tag)
        /\ v.Major = target.Major /\ v.Minor = target.Minor /\ v.Patch = target.Patch
        /\ Len(v.Pre) = 2
        /\ ~v.Pre[1].IsNum
        /\ ToLower(v.Pre[1].VersionStr) = <<"r", "c">>
        /\ v.Pre[2].IsNum
        /\ v.Pre[2].VersionNum # Zero
        /\ NumLE(v.Pre[2].VersionNum, MaxInt64)

EligibleNs(tags, target) ==
    {VersionOf(tags[i]).Pre[2].VersionNum : i \in {j \in 1..Len(tags) : EligibleRC(tags[j], target)}}

\* C3: the RC number is 1 + the largest eligible N of the target, 1 if there
\* is none; gaps are not filled
C3_NextRCNumber ==
    \A r \in Procs :
        PlannedOK(r, ModeRC) =>
            LET ns == EligibleNs(snap[r], ret[r].res.TargetRelease)
            IN  /\ ~ret[r].res.RCNumber.neg
                /\ IF ns = {} THEN ret[r].res.RCNumber.mag = One
                   ELSE \E m \in ns :
                          /\ \A n \in ns : NumLE(n, m)
                          /\ ret[r].res.RCNumber.mag = DecSucc(m)

\* rc.1 and rc.3 exist for the target, rc.2 does not, and the plan is rc.4
C3_Witness ==
    /\ PlannedOK(1, ModeRC)
    /\ EligibleNs(snap[1], ret[1].res.TargetRelease) = {<<"1">>, <<"3">>}
    /\ ret[1].res.RCNumber.mag = <<"4">>

\* C4: a pre-release tag that is not eligible for the target can be taken out
\* of (or put into) the snapshot without changing RCNumber, TagName or the
\* error status of PlanRC
C4_ChannelIsolation ==
    \A r \in Procs :
        Planned(r, ModeRC) =>
            \A i \in 1..Len(snap[r]) :
                (IsPreReleaseTag(snap[r][i]) /\ ~EligibleRC(snap[r][i], TargetOf(r))) =>
                    LET other == Replan(r, Remove(snap[r], i))
                    IN  /\ other.err = ret[r].err
                        /\ other.res.RCNumber = ret[r].res.RCNumber
                        /\ other.res.TagName = ret[r].res.TagName

\* an eligible rc tag and a beta tag of the same target were both listed
C4_Witness ==
    /\ PlannedOK(1, ModeRC)
    /\ ret[1].res.RCNumber.mag # One
    /\ \E i \in 1..Len(snap[1]) :
          /\ IsPreReleaseTag(snap[1][i])
          /\ sameBase(VersionOf(snap[1][i]), ret[1].res.TargetRelease)
          /\ ~EligibleRC(snap[1][i], ret[1].res.TargetRelease)

\* a finished Service.Plan call of either mode
PlannedAny(r) ==
    pc[r] = "done" /\ ret[r].call = "Plan" /\ ret[r].err # "listing refs"
      /\ cfg[r].Mode \in {ModeRelease, ModeRC}

\* C5 as stated: a tag name that does not parse as SemVer can be taken out of
\* (or put into) the snapshot without changing the Result or the error
C5_SkipInvarianceAsStated ==
    \A r \in Procs :
        PlannedAny(r) =>
            \A i \in 1..Len(snap[r]) :
                ~parseSemverTag(snap[r][i].Name).ok =>
                    LET other == Replan(r, Remove(snap[r], i))
                    IN  other.err = ret[r].err /\ other.res = ret[r].res

\* C5 amended: the same for tag names that neither parse as SemVer nor are a
\* bare v<digits> floating name
C5_SkipInvariance ==
    \A r \in Procs :
        PlannedAny(r) =>
            \A i \in 1..Len(snap[r]) :
                (~parseSemverTag(snap[r][i].Name).ok /\ ~parseFloatingTag(snap[r][i].Name).ok) =>
                    LET other == Replan(r, Remove(snap[r], i))
                    IN  other.err = ret[r].err /\ other.res = ret[r].res

\* a malformed name was listed next to a release and a floating tag
C5_Witness ==
    /\ PlannedOK(1, ModeRelease)
    /\ \E i \in 1..Len(snap[1]) :
          ~parseSemverTag(snap[1][i].Name).ok /\ ~parseFloatingTag(snap[1][i].Name).ok
    /\ \E i \in 1..Len(snap[1]) : parseFloatingTag(snap[1][i].Name).ok
    /\ ReleaseIdx(snap[1]) # {}

FloatingIdx(tags) ==
    {i \in 1..Len(tags) : ~parseSemverTag(tags[i].Name).ok /\ parseFloatingTag(tags[i].Name).ok}

\* C6 as stated: AutoDetected exactly when a floating entry of the highest
\* release's major has the (non-empty) object id of the highest release's tag
C6_AutoDetectedAsStated ==
    \A r \in Procs :
        PlannedOK(r, ModeRelease) =>
            LET tags == snap[r]
            IN  ret[r].res.Floating.AutoDetected <=>
                    \E h \in HighestIdx(tags), f \in FloatingIdx(tags) :
                        /\ parseFloatingTag(tags[f].Name).major = VersionOf(tags[h]).Major
                        /\ tags[f].ObjectID # <<>>
                        /\ tags[f].ObjectID = tags[h].ObjectID

\* C6 amended: ... has the non-empty object id of some release tag of that
\* same major, the highest release or an older one
C6_AutoDetected ==
    \A r \in Procs :
        PlannedOK(r, ModeRelease) =>
            LET tags == snap[r]
            IN  ret[r].res.Floating.AutoDetected <=>
                    \E h \in HighestIdx(tags), f \in FloatingIdx(tags), g \in ReleaseIdx(tags) :
                        /\ parseFloatingTag(tags[f].Name).major = VersionOf(tags[h]).Major
                        /\ VersionOf(tags[g]).Major = VersionOf(tags[h]).Major
                        /\ tags[f].ObjectID # <<>>
                        /\ tags[f].ObjectID = tags[g].ObjectID

\* the floating tag points at an older release of the highest release's major
C6_Witness ==
    /\ PlannedOK(1, ModeRelease)
    /\ ret[1].res.Floating.AutoDetected
    /\ \E h \in HighestIdx(snap[1]), f \in FloatingIdx(snap[1]) :
          /\ parseFloatingTag(snap[1][f].Name).major = VersionOf(snap[1][h]).Major
          /\ snap[1][f].ObjectID # snap[1][h].ObjectID

\* process r is inside, or has finished, a PlanAndCreate call
InCreate(r) ==
    pc[r] \in {"create", "delete", "floating"} \/ (pc[r] = "done" /\ ret[r].call = "PlanAndCreate")

CreatedOK(r) == pc[r] = "done" /\ ret[r].call = "PlanAndCreate" /\ ret[r].err = ""

\* the release (or RC) tag of the call was created
ReleaseTagCreated(r) == Len(log[r]) >= 1 /\ log[r][1].ok

DeleteIdx(r) == {i \in 1..Len(log[r]) : log[r][i].op = "delete"}

\* store operations after the first one are the floating-tag operations
FloatingOps(r) == {i \in 1..Len(log[r]) : i > 1}

FloatingCreateIdx(r) == {i \in FloatingOps(r) : log[r][i].op = "create"}

\* C7: floating-tag operations happen only when the flag is set or the plan
\* auto-detected the convention, a successful release run then performs them
\* and returns Enabled = flag \/ AutoDetected; otherwise the run is exactly one
\* CreateAnnotatedTag, no DeleteRef, Created and DeletedExisting false
C7_Enablement ==
    \A r \in Procs :
        (InCreate(r) /\ cfg[r].Mode = ModeRelease) =>
            LET enabled == cfg[r].UseFloatingTags \/ plan[r].Floating.AutoDetected
            IN  /\ FloatingOps(r) # {} => enabled
                /\ CreatedOK(r) =>
                      /\ ret[r].res.Floating.Enabled = enabled
                      /\ ret[r].res.Floating.AutoDetected = plan[r].Floating.AutoDetected
                      /\ enabled => \E i \in FloatingCreateIdx(r) : log[r][i].ok
                      /\ ~enabled =>
                            /\ Len(log[r]) = 1
                            /\ log[r][1].op = "create"
                            /\ log[r][1].name = ret[r].res.TagName
                            /\ ~ret[r].res.Floating.Created
                            /\ ~ret[r].res.Floating.DeletedExisting

\* a successful release run without the flag moved the floating tag
C7_Witness ==
    /\ CreatedOK(1)
    /\ cfg[1].Mode = ModeRelease
    /\ ~cfg[1].UseFloatingTags
    /\ ret[1].res.Floating.AutoDetected
    /\ ret[1].res.Floating.Created

\* the floating entries of the snapshot for the major of the planned release
TargetFloatIdx(r) ==
    {i \in FloatingIdx(snap[r]) : parseFloatingTag(snap[r][i].Name).major = plan[r].Version.Major}

\* a release run with floating tags enabled that is over and got past the
\* creation of the release tag
FloatingRunOver(r) ==
    /\ pc[r] = "done"
    /\ ret[r].call = "PlanAndCreate"
    /\ cfg[r].Mode = ModeRelease
    /\ ReleaseTagCreated(r)
    /\ cfg[r].UseFloatingTags \/ plan[r].Floating.AutoDetected

\* ordering and arguments of the floating operations, shared by both
\* statements of C8
C8_Order ==
    \A r \in Procs :
        (InCreate(r) /\ cfg[r].Mode = ModeRelease) =>
            /\ \A i \in DeleteIdx(r) :
                  /\ i = 2
                  /\ \E f \in TargetFloatIdx(r) :
                        /\ log[r][i].name = snap[r][f].Name
                        /\ log[r][i].objectID = snap[r][f].ObjectID
            /\ \A i \in FloatingCreateIdx(r) :
                  IF TargetFloatIdx(r) # {}
                  THEN i = 3 /\ log[r][2].op = "delete" /\ log[r][2].ok
                  ELSE i = 2
            /\ CreatedOK(r) =>
                  /\ ret[r].res.Floating.DeletedExisting = (\E i \in DeleteIdx(r) : log[r][i].ok)
                  /\ ret[r].res.Floating.Created = (\E i \in FloatingCreateIdx(r) : log[r][i].ok)
            /\ (FloatingRunOver(r) /\ TargetFloatIdx(r) = {}) =>
                  /\ DeleteIdx(r) = {}
                  /\ Len(log[r]) = 2
                  /\ log[r][2].op = "create"
                  /\ log[r][2].ok => (ret[r].err = "" /\ ret[r].res.Floating.Created)

\* C8 as stated: DeleteRef is issued exactly when the snapshot holds a floating
\* entry for the target major
C8_DeleteAsStated ==
    /\ C8_Order
    /\ \A r \in Procs :
          FloatingRunOver(r) => (DeleteIdx(r) # {} <=> TargetFloatIdx(r) # {})

\* C8 amended: ... a floating entry for the target major with a known
\* (non-empty) object id; with an unknown one the run fails before any
\* floating operation
C8_Delete ==
    /\ C8_Order
    /\ \A r \in Procs :
          FloatingRunOver(r) =>
              /\ DeleteIdx(r) # {} <=>
                    \E f \in TargetFloatIdx(r) : snap[r][f].ObjectID # <<>>
              /\ (\E f \in TargetFloatIdx(r) : snap[r][f].ObjectID = <<>>) =>
                    (FloatingOps(r) = {} /\ ret[r].err # "")

\* the floating tag of the target major was deleted and created again
C8_Witness ==
    /\ CreatedOK(1)
    /\ Len(log[1]) = 3
    /\ log[1][2].op = "delete"
    /\ ret[1].res.Floating.DeletedExisting
    /\ ret[1].res.Floating.Created

\* the call of process r obtained its snapshot from the store
Listed(r) == ~(pc[r] = "done" /\ ret[r].err = "listing refs")

\* the floating refs of a store
FloatingRefs(store) == {store[i] : i \in FloatingIdx(store)}

\* C9: an RC run issues no DeleteRef and at most one CreateAnnotatedTag (the
\* RC tag, exactly one when it succeeds), leaves every floating ref as it
\* was listed and returns an empty floating plan
C9_RCNoFloating ==
    \A r \in Procs :
        (InCreate(r) /\ cfg[r].Mode = ModeRC) =>
            /\ DeleteIdx(r) = {}
            /\ Len(log[r]) <= 1
            /\ \A i \in 1..Len(log[r]) : log[r][i].name = plan[r].TagName
            /\ Listed(r) => FloatingRefs(refs) = FloatingRefs(snap[r])
            /\ CreatedOK(r) =>
                  /\ Len(log[r]) = 1 /\ log[r][1].ok
                  /\ ret[r].res.Mode = ModeRC
                  /\ ret[r].res.Floating = ZeroFloatingPlan

\* an RC run with the flag set on a store whose floating tag follows the
\* highest release
C9_Witness ==
    /\ CreatedOK(1)
    /\ cfg[1].Mode = ModeRC
    /\ cfg[1].UseFloatingTags
    /\ \E h \in HighestIdx(snap[1]), f \in FloatingIdx(snap[1]) :
          /\ parseFloatingTag(snap[1][f].Name).major = VersionOf(snap[1][h]).Major
          /\ snap[1][f].ObjectID = snap[1][h].ObjectID

\* the invocation before this one was a successful release run that
\* created the floating tag
AfterFloatingUpdate ==
    /\ hist.last.call = "PlanAndCreate"
    /\ hist.last.ok
    /\ hist.last.mode = ModeRelease
    /\ hist.last.floated

\* C10: planning a release right after a successful floating-tag update
\* auto-detects the floating tag, and the floating tag is deleted again only
\* once a release newer than the one it points at is in the store
C10_FloatingIdempotence ==
    \A r \in Procs :
        (AfterFloatingUpdate /\ InCreate(r) /\ cfg[r].Mode = ModeRelease
            /\ pc[r] # "done") =>
            /\ plan[r].Floating.AutoDetected
            /\ DeleteIdx(r) # {} =>
                  \E i \in ReleaseIdx(refs) : GT(VersionOf(refs[i]), hist.last.version)

\* the floating tag of the highest release's major points at the commit of
\* the highest release tag
Tracks(tags) ==
    \E h \in HighestIdx(tags), f \in FloatingIdx(tags) :
        /\ parseFloatingTag(tags[f].Name).major = VersionOf(tags[h]).Major
        /\ tags[f].ObjectID # <<>>
        /\ tags[f].ObjectID = tags[h].ObjectID

\* C11: a successful release-mode PlanAndCreate that started from a store
\* whose floating tag tracks the highest release leaves a store whose
\* floating tag tracks the highest release (hence so does any sequence of
\* such runs)
C11_FloatingTracksLatest ==
    \A r \in Procs :
        (CreatedOK(r) /\ cfg[r].Mode = ModeRelease /\ Tracks(snap[r])) => Tracks(refs)

\* the floating DeleteRef of the call succeeded and the floating
\* CreateAnnotatedTag after it failed
PartialFailure(r) ==
    /\ pc[r] = "done"
    /\ ret[r].call = "PlanAndCreate"
    /\ Len(log[r]) = 3
    /\ log[r][2].op = "delete" /\ log[r][2].ok
    /\ log[r][3].op = "create" /\ ~log[r][3].ok

FloatingMajors(store) == {parseFloatingTag(store[i].Name).major : i \in FloatingIdx(store)}

\* after a partial failure the call has failed and the store holds the new
\* release tag and no floating tag of its major
C12_Window ==
    \A r \in Procs :
        PartialFailure(r) =>
            /\ ret[r].err # ""
            /\ \E i \in 1..Len(refs) :
                  /\ refs[i].Name = RefsTagsPrefix \o plan[r].TagName
                  /\ refs[i].ObjectID = TrimSpace(cfg[r].CommitSHA)
            /\ plan[r].Version.Major \notin FloatingMajors(refs)

\* the successful release run with the same configuration that follows a
\* partial failure re-creates the floating tag of that major
C12_Retry ==
    \A r \in Procs :
        (/\ hist.last.lost # <<>>
         /\ CreatedOK(r)
         /\ cfg[r].Mode = ModeRelease
         /\ cfg[r].Bump = hist.last.bump
         /\ cfg[r].UseFloatingTags = hist.last.flag) =>
            hist.last.lost \in FloatingMajors(refs)

\* C12: a floating DeleteRef that succeeded followed by a floating
\* CreateAnnotatedTag that failed leaves an error, the new release tag and no
\* floating tag of that major, and the next successful release run with the
\* same configuration re-creates that floating tag
C12_PartialFailureWindow == C12_Window /\ C12_Retry

\* C13: a release run with floating tags enabled whose snapshot holds the
\* floating tag of the target major without an object id fails, issues
\* neither DeleteRef nor the floating CreateAnnotatedTag and leaves the
\* floating refs of the store as they were listed
C13_UnknownObjectID ==
    \A r \in Procs :
        (/\ InCreate(r)
         /\ cfg[r].Mode = ModeRelease
         /\ cfg[r].UseFloatingTags \/ plan[r].Floating.AutoDetected
         /\ \E f \in TargetFloatIdx(r) : snap[r][f].ObjectID = <<>>) =>
            /\ FloatingOps(r) = {}
            /\ FloatingRefs(refs) = FloatingRefs(snap[r])
            /\ pc[r] = "done" => (ret[r].err # "" /\ ret[r].res = ZeroResult)

\* the release tag was created and the run then stopped at the floating tag
\* without object id
C13_Witness ==
    /\ pc[1] = "done"
    /\ cfg[1].Mode = ModeRelease
    /\ ReleaseTagCreated(1)
    /\ ret[1].err = "floating tag missing object id"
    /\ \E f \in TargetFloatIdx(1) : snap[1][f].ObjectID = <<>>

\* s parses as SemVer directly or after one leading v / V is removed
ParsesAsSemver(s) ==
    \/ semverParse(s).ok
    \/ Len(s) > 1 /\ s[1] \in {"v", "V"} /\ semverParse(Tail(s)).ok

\* a finished Service.Plan call without releases in its snapshot and with a
\* non-blank base override
NeedsOverride(r) ==
    /\ PlannedAny(r)
    /\ ReleaseIdx(snap[r]) = {}
    /\ TrimSpace(cfg[r].BaseVersion) # <<>>

SelectedBases(r) ==
    IF ReleaseIdx(snap[r]) # {} THEN {VersionOf(snap[r][i]) : i \in HighestIdx(snap[r])}
    ELSE IF TrimSpace(cfg[r].BaseVersion) # <<>> THEN {parseVersionString(cfg[r].BaseVersion).v}
    ELSE {ZeroVersion}

\* C15: the bumped version is (M+1, 0, 0), (M, m+1, 0) or (M, m, p+1) of the
\* base (M, m, p) for major, minor, patch, it never carries pre-release or
\* build metadata, and Result.ReleaseBase is the base exactly as selected
C15_Bump ==
    \A r \in Procs :
        (PlannedAny(r) /\ ret[r].err = "") =>
            LET base   == ret[r].res.ReleaseBase
                target == ret[r].res.TargetRelease
            IN  /\ base \in SelectedBases(r)
                /\ target.Pre = <<>> /\ target.Build = <<>>
                /\ cfg[r].Bump = BumpMajor =>
                      /\ target.Major = DecSucc(base.Major)
                      /\ target.Minor = Zero /\ target.Patch = Zero
                /\ cfg[r].Bump = BumpMinor =>
                      /\ target.Major = base.Major
                      /\ target.Minor = DecSucc(base.Minor)
                      /\ target.Patch = Zero
                /\ cfg[r].Bump = BumpPatch =>
                      /\ target.Major = base.Major
                      /\ target.Minor = base.Minor
                      /\ target.Patch = DecSucc(base.Patch)
                /\ cfg[r].Mode = ModeRelease => ret[r].res.Version = target

\* <major>.<minor>.<patch> in decimal
Dotted(v) == v.Major \o <<".">> \o v.Minor \o <<".">> \o v.Patch

\* C16: on success the TagName of PlanRelease is the trimmed prefix followed
\* by <major>.<minor>.<patch> of the bumped version, and the TagName of PlanRC
\* is the prefix followed by <major>.<minor>.<patch>-rc.<N> with N = RCNumber
\* and major.minor.patch = TargetRelease; nothing else is added
C16_TagName ==
    \A r \in Procs :
        /\ PlannedOK(r, ModeRelease) =>
              /\ ret[r].res.TagName = TrimSpace(prefix) \o Dotted(ret[r].res.Version)
              /\ ret[r].res.Version = ret[r].res.TargetRelease
        /\ PlannedOK(r, ModeRC) =>
              /\ ~ret[r].res.RCNumber.neg
              /\ ret[r].res.TagName =
                    TrimSpace(prefix) \o Dotted(ret[r].res.TargetRelease)
                      \o <<"-", "r", "c", ".">> \o ret[r].res.RCNumber.mag

\* without a prefix the third release candidate of 1.2.4 is planned as
\* 1.2.4-rc.3 although every listed tag starts with v
C16_Witness ==
    /\ PlannedOK(1, ModeRC)
    /\ prefix = <<>>
    /\ Len(snap[1]) = 3
    /\ ret[1].res.TagName = <<"1", ".", "2", ".", "4", "-", "r", "c", ".", "3">>

\* the floating tag name of a release plan p
NamesTargetMajor(p) ==
    /\ p.Floating.TagName = <<"v">> \o p.TargetRelease.Major
    /\ p.TargetRelease = p.Version

\* C17: in release mode the floating tag name that is planned, created and
\* returned is the literal v followed by the major number of the bumped
\* release target, whatever the tag prefix; after a major bump that is not
\* the major number of the base
C17_FloatingName ==
    \A r \in Procs :
        /\ PlannedOK(r, ModeRelease) => NamesTargetMajor(ret[r].res)
        /\ (InCreate(r) /\ plan[r].Mode = ModeRelease) =>
              /\ NamesTargetMajor(plan[r])
              /\ cfg[r].Bump = BumpMajor =>
                    plan[r].Floating.TagName # <<"v">> \o plan[r].ReleaseBase.Major
              /\ \A i \in FloatingCreateIdx(r) :
                    log[r][i].name = <<"v">> \o plan[r].TargetRelease.Major
              /\ CreatedOK(r) => NamesTargetMajor(ret[r].res)

\* under the prefix r- a major bump of 1.2.3 created the floating tag v2
C17_Witness ==
    /\ CreatedOK(1)
    /\ prefix = <<"r", "-">>
    /\ cfg[1].Bump = BumpMajor
    /\ plan[1].ReleaseBase.Major = <<"1">>
    /\ \E i \in FloatingCreateIdx(1) : log[1][i].ok /\ log[1][i].name = <<"v", "2">>
    /\ \E i \in 1..Len(refs) : refs[i].Name = RefsTagsPrefix \o <<"v", "2">>

\* the Result that comes with an error is the zero value
ZeroOnError(out) == out.err # "" => out.res = ZeroResult

\* C18: an error never comes with a partly filled Result: whenever
\* PlanRelease, PlanRC, Service.Plan or Service.PlanAndCreate returns an error
\* the Result returned with it is the zero value, also when the floating step
\* fails after the release tag was created and flags were set on the plan
C18_ZeroResultOnError ==
    \A r \in Procs :
        pc[r] = "done" =>
            /\ ZeroOnError(ret[r])
            /\ ZeroOnError(PlanRelease(prefix, snap[r], cfg[r].Bump, cfg[r].BaseVersion))
            /\ ZeroOnError(PlanRC(prefix, snap[r], cfg[r].Bump, cfg[r].BaseVersion))
            /\ \A listOK \in BOOLEAN :
                  ZeroOnError(ServicePlan(prefix, snap[r], [cfg[r] EXCEPT !.Mode = "bad"], listOK))

\* the creation of the floating tag failed after the release tag was created,
\* the old floating tag deleted and both recorded on the local plan
C18_Witness ==
    /\ pc[1] = "done"
    /\ ret[1].call = "PlanAndCreate"
    /\ ret[1].err = "creating floating tag"
    /\ ReleaseTagCreated(1)
    /\ plan[1].Floating.Enabled
    /\ plan[1].Floating.DeletedExisting
    /\ ret[1].res = ZeroResult

Blank(str) == \A i \in 1..Len(str) : str[i] \in {" ", "\t", "\n", "\r"}

\* a finished PlanAndCreate whose commit SHA, tagger name or tagger email is blank
BlankArgument(r) ==
    /\ pc[r] = "done"
    /\ ret[r].call = "PlanAndCreate"
    /\ Blank(cfg[r].CommitSHA) \/ Blank(cfg[r].TaggerName) \/ Blank(cfg[r].TaggerEmail)

\* the error of the first blank argument, in the order commit, name, email
FirstBlank(c) ==
    CASE Blank(c.CommitSHA) -> "commit sha is empty"
      [] ~Blank(c.CommitSHA) /\ Blank(c.TaggerName) -> "tagger name is empty"
      [] OTHER -> "tagger email is empty"

\* no CreateAnnotatedTag, no DeleteRef, and the store is as it was listed
NoStoreOperation(r) ==
    /\ log[r] = <<>>
    /\ Listed(r) => toPlannerTags(convertGitRefs(refs)) = snap[r]

\* C19 as stated: every PlanAndCreate with a blank argument returns the error
\* of that argument
C19_ValidationAsStated ==
    \A r \in Procs :
        BlankArgument(r) => (ret[r].err = FirstBlank(cfg[r]) /\ NoStoreOperation(r))

\* C19: PlanAndCreate with a blank commit SHA, tagger name or tagger email
\* issues no CreateAnnotatedTag and no DeleteRef and leaves the store
\* unchanged; when planning succeeded it returns ErrEmptyCommit, ErrEmptyTagger
\* or ErrEmptyEmail for the first blank one in that order, and when planning
\* failed it returns the error of the planning
C19_Validation ==
    \A r \in Procs :
        BlankArgument(r) =>
            /\ NoStoreOperation(r)
            /\ ret[r].res = ZeroResult
            /\ plan[r] # ZeroResult => ret[r].err = FirstBlank(cfg[r])
            /\ plan[r] = ZeroResult =>
                  ret[r].err \in {"listing refs", "invalid mode",
                                  ServicePlan(prefix, snap[r], cfg[r], TRUE).err}

\* all three arguments are blank, the plan was made and the call returned
\* ErrEmptyCommit with a store that holds tags
C19_Witness ==
    /\ BlankArgument(1)
    /\ Blank(cfg[1].CommitSHA) /\ Blank(cfg[1].TaggerName) /\ Blank(cfg[1].TaggerEmail)
    /\ plan[1].Mode = ModeRelease
    /\ ret[1].err = "commit sha is empty"
    /\ Len(refs) = 2
    /\ hist.n = 1

\* a label that equals a configured major, minor or patch label, ignoring case
IsSemverLabel(lbl) == \E b \in Bumps : EqualFold(lbl, resolver.labels[b])

\* the label the branch of the last run asks for
ExpectedLabel == resolver.labels[Resolve(TrimSpace(apply.cfg.Branch)).bump]

\* the labels on the pull request when the last run started
SemverBefore == {i \in 1..Len(apply.before) : IsSemverLabel(apply.before[i])}

ExpectedBefore == {i \in 1..Len(apply.before) : EqualFold(apply.before[i], ExpectedLabel)}

\* the last run of Apply listed the labels of the pull request
Decided == apply.n > 0 /\ apply.err \notin {"invalid pr id", "empty branch", "listing pr labels"}

\* C20: Apply adds the expected semver label only when the pull request
\* carries no semver label at all, labels compared case-insensitively with
\* the configured major, minor and patch labels; with the expected label
\* present it does nothing; with only other semver labels present it reports
\* a conflict and adds nothing; it never removes a label; so all the runs
\* on one pull request together add at most one label
C20_Labelling ==
    /\ apply.total <= 1
    /\ apply.n > 0 =>
          /\ Len(apply.before) <= Len(prLabels)
          /\ SubSeq(prLabels, 1, Len(apply.before)) = apply.before
          /\ apply.calls # <<>> => (Decided /\ SemverBefore = {} /\ apply.calls = <<ExpectedLabel>>)
          /\ prLabels # apply.before =>
                /\ prLabels = Append(apply.before, ExpectedLabel)
                /\ apply.calls = <<ExpectedLabel>>
                /\ apply.res.LabelAdded
                /\ apply.err = ""
          /\ ~Decided => (apply.calls = <<>> /\ prLabels = apply.before)
          /\ (Decided /\ ExpectedBefore # {}) =>
                /\ apply.res.Decision = DecisionNoop
                /\ apply.calls = <<>>
                /\ apply.err = ""
          /\ (Decided /\ ExpectedBefore = {} /\ SemverBefore # {}) =>
                /\ apply.res.Decision = DecisionConflict
                /\ apply.res.ExistingSemver = SelectSeq(apply.before, IsSemverLabel)
                /\ apply.calls = <<>>
                /\ ~apply.res.LabelAdded
                /\ apply.err = ""
          /\ (Decided /\ SemverBefore = {}) =>
                /\ apply.res.Decision = DecisionAddExpected
                /\ apply.calls = <<ExpectedLabel>>
                /\ apply.res.LabelAdded <=> apply.err = ""

\* the first run added Feature to a pull request without semver label, the
\* second found it in place, the third, for a major branch, reports the
\* conflict and adds nothing
C20_Witness ==
    /\ apply.n = 3
    /\ apply.total = 1
    /\ Decided
    /\ apply.res.Decision = DecisionConflict
    /\ apply.res.Bump = BumpMajor
    /\ apply.calls = <<>>
    /\ prLabels = <<<<"n", "e", "e", "d", "s", "-", "r", "e", "v", "i", "e", "w">>,
                    <<"F", "e", "a", "t", "u", "r", "e">>>>

\* the bumps whose configured label is on the pull request, ignoring case
LabelledBumps ==
    {b \in Bumps : \E i \in 1..Len(prLabels) : EqualFold(TrimSpace(prLabels[i]), resolver.labels[b])}

\* the highest-impact bump of a set: major before minor before patch
HighestImpact(bs) ==
    IF BumpMajor \in bs THEN BumpMajor ELSE IF BumpMinor \in bs THEN BumpMinor ELSE BumpPatch

\* the last infer-bump run had a commit and its queries went through
Inferred(find) ==
    /\ infer.done
    /\ TrimSpace(infer.cfg.CommitSHA) # <<>>
    /\ infer.find = find
    /\ find = "found" => infer.listed

\* C21: when the merge commit maps to a pull request, Resolve returns the
\* highest-impact bump among its semver labels; without semver label it
\* returns patch, Defaulted, reason no-semver-labels; when no pull request is
\* found it returns patch, Defaulted, reason no-pull-request if not strict
\* and an error for the missing pull request if strict
C21_InferBump ==
    /\ (Inferred("found") /\ LabelledBumps # {}) =>
          /\ infer.err = ""
          /\ infer.res.Bump = HighestImpact(LabelledBumps)
          /\ ~infer.res.Defaulted
          /\ infer.res.DefaultReason = DefaultReasonNone
    /\ (Inferred("found") /\ LabelledBumps = {}) =>
          /\ infer.err = ""
          /\ infer.res.Bump = BumpPatch
          /\ infer.res.Defaulted
          /\ infer.res.DefaultReason = "no-semver-labels"
          /\ infer.res.SemverLabels = <<>>
    /\ (Inferred("not-found") /\ ~infer.cfg.Strict) =>
          /\ infer.err = ""
          /\ infer.res.Bump = BumpPatch
          /\ infer.res.Defaulted
          /\ infer.res.DefaultReason = "no-pull-request"
    /\ (Inferred("not-found") /\ infer.cfg.Strict) =>
          /\ infer.err = "finding pull request by merge commit: not found"
          /\ infer.res = ZeroInferResult

\* the pull request carries the minor label before the major label, in other
\* case than configured, and the run returned major
C21_Witness ==
    /\ Inferred("found")
    /\ Len(prLabels) = 2
    /\ EqualFold(prLabels[1], resolver.labels[BumpMinor])
    /\ prLabels[1] # resolver.labels[BumpMinor]
    /\ EqualFold(prLabels[2], resolver.labels[BumpMajor])
    /\ infer.res.Bump = BumpMajor
    /\ Len(infer.res.SemverLabels) = 2

\* the component of version v that the bump increments
Incremented(v, intent) ==
    CASE intent = BumpMajor -> v.Major
      [] intent = BumpMinor -> v.Minor
      [] OTHER -> v.Patch

\* the selected base of the call has the incremented component at the
\* largest unsigned 64-bit value
AtMaximum(r) ==
    /\ PlannedAny(r)
    /\ \E base \in SelectedBases(r) : Incremented(base, cfg[r].Bump) = MaxUint64

\* C22: when the component to be incremented is at the largest unsigned
\* 64-bit value, PlanRelease and PlanRC return an error and no Result
C22_OverflowFatal ==
    \A r \in Procs :
        AtMaximum(r) => (ret[r].err # "" /\ ret[r].res = ZeroResult)

\* the pre-release identifiers rc.<n>
RCIdentifiers(n) ==
    <<[VersionStr |-> <<"r", "c">>, VersionNum |-> Zero, IsNum |-> FALSE],
      [VersionStr |-> <<>>, VersionNum |-> n, IsNum |-> TRUE]>>

\* C23: a successful PlanRC has RCNumber >= 1 and a Version with the
\* pre-release identifiers rc and RCNumber and no build metadata; when the
\* largest eligible N of the target is the largest signed 64-bit value, so
\* that N + 1 wraps to a number <= 0, PlanRC fails without a Result
C23_RCNumberPositive ==
    \A r \in Procs :
        /\ PlannedOK(r, ModeRC) =>
              /\ ~ret[r].res.RCNumber.neg
              /\ ret[r].res.RCNumber.mag # Zero
              /\ ret[r].res.Version.Pre = RCIdentifiers(ret[r].res.RCNumber.mag)
              /\ ret[r].res.Version.Build = <<>>
              /\ MaxInt64 \notin EligibleNs(snap[r], ret[r].res.TargetRelease)
        /\ (Planned(r, ModeRC) /\ MaxInt64 \in EligibleNs(snap[r], TargetOf(r))) =>
              /\ ret[r].err = "invalid rc number"
              /\ ret[r].res = ZeroResult

\* rc.9223372036854775807 exists for the target next to rc.1 and the call
\* failed
C23_Witness ==
    /\ Planned(1, ModeRC)
    /\ {One, MaxInt64} \subseteq EligibleNs(snap[1], TargetOf(1))
    /\ ret[1].err = "invalid rc number"

\* the tag name without surrounding white space and refs/tags/
Bare(tag) == TrimPrefix(TrimSpace(tag.Name), RefsTagsPrefix)

\* v or V followed by digits only
IsBareMajor(tag) ==
    /\ Len(Bare(tag)) > 1
    /\ Bare(tag)[1] \in {"v", "V"}
    /\ OnlyDigits(Tail(Bare(tag)))

\* a bare major whose number fits 64 bits
IsFloatingTag(tag) ==
    IsBareMajor(tag) /\ NumLE(StripZeros(Tail(Bare(tag))), MaxUint64)

\* the number of categories tag fits
Categories(tag) ==
    Cardinality({k \in {"release", "pre-release", "floating"} :
                    \/ k = "release" /\ IsReleaseTag(tag)
                    \/ k = "pre-release" /\ IsPreReleaseTag(tag)
                    \/ k = "floating" /\ IsFloatingTag(tag)})

ReleaseEntry(tag) == [version |-> VersionOf(tag), tag |-> tag]

FloatingEntry(tag) == [major |-> StripZeros(Tail(Bare(tag))), tag |-> tag]

\* the entries made of the tags that satisfy Test, in the order of the tags
Entries(tags, Test(_), Entry(_)) ==
    LET kept == SelectSeq(tags, Test)
    IN  [i \in 1..Len(kept) |-> Entry(kept[i])]

\* C24: every tag of the snapshot is in at most one of the categories
\* release, pre-release and floating; release entries have no pre-release
\* identifier and pre-release entries have at least one; a bare v<digits>
\* tag is a floating entry keyed by its number and is in neither other list;
\* tags of no category are dropped and the call does not fail
C24_Catalog ==
    \A r \in Procs :
        PlannedAny(r) =>
            LET c == buildCatalog(snap[r])
            IN  /\ \A i \in 1..Len(snap[r]) : Categories(snap[r][i]) <= 1
                /\ c.releases = Entries(snap[r], IsReleaseTag, ReleaseEntry)
                /\ c.prereleases = Entries(snap[r], IsPreReleaseTag, VersionOf)
                /\ c.floating = Entries(snap[r], IsFloatingTag, FloatingEntry)
                /\ \A i \in 1..Len(c.releases) : c.releases[i].version.Pre = <<>>
                /\ \A i \in 1..Len(c.prereleases) : c.prereleases[i].Pre # <<>>
                /\ \A i \in 1..Len(snap[r]) :
                      IsBareMajor(snap[r][i]) =>
                          (~IsReleaseTag(snap[r][i]) /\ ~IsPreReleaseTag(snap[r][i]))
                /\ ret[r].err = ""

\* a snapshot with a pre-release, the bare major v01 and the name latest:
\* one pre-release entry, one floating entry keyed 1, no release
C24_Witness ==
    /\ PlannedAny(1)
    /\ Len(snap[1]) = 3
    /\ Len(buildCatalog(snap[1]).prereleases) = 1
    /\ Len(buildCatalog(snap[1]).floating) = 1
    /\ buildCatalog(snap[1]).floating[1].major = One
    /\ buildCatalog(snap[1]).floating[1].tag.Name = RefsTagsPrefix \o <<"v", "0", "1">>
    /\ \E i \in 1..3 : Categories(snap[1][i]) = 0

HasRelease(tags) == \E i \in 1..Len(tags) : IsReleaseTag(tags[i])

\* the planner call of the finished Service.Plan of process r, with another
\* base override
ReplanWith(r, base) ==
    IF cfg[r].Mode = ModeRelease
    THEN PlanRelease(prefix, snap[r], cfg[r].Bump, base)
    ELSE PlanRC(prefix, snap[r], cfg[r].Bump, base)

\* C25 as stated: on a snapshot with at least one release tag every base
\* override, blank and unparsable ones included, gives the Result of the call
\* and no error; a call fails on its base override only when the snapshot
\* has no release tag
C25_OverrideIgnoredAsStated ==
    \A r \in Procs :
        PlannedAny(r) =>
            /\ HasRelease(snap[r]) =>
                  /\ ret[r].err = ""
                  /\ \A o \in Overrides :
                        /\ ReplanWith(r, o).err = ""
                        /\ ReplanWith(r, o).res = ret[r].res
            /\ ret[r].err = "invalid base version" =>
                  (~HasRelease(snap[r]) /\ ~ParsesAsSemver(cfg[r].BaseVersion))

\* C25: on a snapshot with at least one release tag every base override,
\* blank and unparsable ones included, gives the Result and the error of the
\* call, and the error is never the one of an invalid base version; a call
\* fails on its base override only when the snapshot has no release tag
C25_OverrideIgnored ==
    \A r \in Procs :
        PlannedAny(r) =>
            /\ HasRelease(snap[r]) =>
                  /\ ret[r].err # "invalid base version"
                  /\ \A o \in Overrides :
                        /\ ReplanWith(r, o).err = ret[r].err
                        /\ ReplanWith(r, o).res = ret[r].res
            /\ ret[r].err = "invalid base version" =>
                  (~HasRelease(snap[r]) /\ ~ParsesAsSemver(cfg[r].BaseVersion))

\* a call with the override bad on a snapshot with a release succeeded on
\* the release
C25_Witness ==
    /\ PlannedAny(1)
    /\ HasRelease(snap[1])
    /\ cfg[1].BaseVersion = <<"b", "a", "d">>
    /\ ret[1].err = ""
    /\ ret[1].res.BaseSource = BaseSourceExisting

\* the orders of the tags of a snapshot
Orders(tags) ==
    {[i \in 1..Len(tags) |-> tags[f[i]]] :
        f \in {g \in [1..Len(tags) -> 1..Len(tags)] :
                  \A i, j \in 1..Len(tags) : g[i] = g[j] => i = j}}

\* the fields of a Result that the plan of a run consists of
PlanFields(res) ==
    [TagName |-> res.TagName,
     Version |-> res.Version,
     ReleaseBase |-> res.ReleaseBase,
     BaseSource |-> res.BaseSource,
     RCNumber |-> res.RCNumber,
     FloatingTagName |-> res.Floating.TagName,
     Existing |-> res.Floating.Existing,
     AutoDetected |-> res.Floating.AutoDetected]

\* C26: the Result of PlanRelease and of PlanRC is the same for every order
\* of the tags of the snapshot: TagName, Version, ReleaseBase, BaseSource,
\* RCNumber and the floating plan (TagName, Existing, AutoDetected)
C26_OrderIndependent ==
    \A r \in Procs :
        PlannedAny(r) =>
            \A tags \in Orders(snap[r]) :
                /\ Replan(r, tags).err = ret[r].err
                /\ PlanFields(Replan(r, tags).res) = PlanFields(ret[r].res)

\* the run before this one was a successful PlanAndCreate of the mode, and
\* this run is a successful RC run with the same bump
RCRunAfter(r, mode) ==
    /\ hist.last.call = "PlanAndCreate"
    /\ hist.last.ok
    /\ hist.last.mode = mode
    /\ CreatedOK(r)
    /\ cfg[r].Mode = ModeRC
    /\ cfg[r].Bump = hist.last.bump

\* C27: a successful RC run that follows a successful RC run with the same
\* bump creates the RC tag of the same target with the number one higher, a
\* tag name that was not there before; a successful RC run that follows a
\* successful release run with the same bump targets the release after the
\* one just created, with the number 1 + the largest eligible N of that
\* target (1 if there is none)
C27_RCSequences ==
    \A r \in Procs :
        /\ RCRunAfter(r, ModeRC) =>
              /\ sameBase(ret[r].res.Version, hist.last.version)
              /\ ret[r].res.Version.Pre =
                    RCIdentifiers(DecSucc(hist.last.version.Pre[2].VersionNum))
              /\ (RefsTagsPrefix \o ret[r].res.TagName) \notin RefNames(snap[r])
        /\ RCRunAfter(r, ModeRelease) =>
              LET target == bumpVersion(hist.last.version, cfg[r].Bump).version
                  ns == EligibleNs(snap[r], target)
              IN  /\ ret[r].res.TargetRelease = target
                  /\ sameBase(ret[r].res.Version, target)
                  /\ IF ns = {} THEN ret[r].res.RCNumber = IntOf(One)
                     ELSE \E m \in ns :
                            /\ \A n \in ns : NumLE(n, m)
                            /\ ret[r].res.RCNumber = IntOf(DecSucc(m))

\* C28: a release run issues the CreateAnnotatedTag of the release tag
\* before every floating-tag operation; the floating tag is created with the
\* commit, message and tagger of the release tag; when the creation of the
\* release tag fails there is no DeleteRef and no floating CreateAnnotatedTag,
\* and the floating refs of the store are as they were listed
C28_ReleaseFirst ==
    \A r \in Procs :
        (InCreate(r) /\ cfg[r].Mode = ModeRelease /\ Len(log[r]) >= 1) =>
            /\ log[r][1].op = "create"
            /\ log[r][1].name = plan[r].TagName
            /\ log[r][1].spec = ReleaseSpec(cfg[r], plan[r])
            /\ \A i \in FloatingOps(r) : log[r][1].ok
            /\ \A i \in FloatingCreateIdx(r) :
                  /\ log[r][i].spec.ObjectID = log[r][1].spec.ObjectID
                  /\ log[r][i].spec.ObjectType = log[r][1].spec.ObjectType
                  /\ log[r][i].spec.Message = log[r][1].spec.Message
                  /\ log[r][i].spec.TaggerName = log[r][1].spec.TaggerName
                  /\ log[r][i].spec.TaggerEmail = log[r][1].spec.TaggerEmail
            /\ ~log[r][1].ok =>
                  /\ Len(log[r]) = 1
                  /\ pc[r] = "done"
                  /\ ret[r].err = "creating annotated tag"
                  /\ FloatingRefs(refs) = FloatingRefs(snap[r])

\* a release run deleted the floating tag of commit a and created it again
\* on the commit of the release tag
C28_Witness ==
    /\ CreatedOK(1)
    /\ cfg[1].Mode = ModeRelease
    /\ Len(log[1]) = 3
    /\ log[1][2].op = "delete"
    /\ log[1][2].objectID = <<"a">>
    /\ log[1][3].op = "create"
    /\ log[1][3].spec.ObjectID = log[1][1].spec.ObjectID

\* C29: the ref a release run passes to DeleteRef is the floating tag it
\* then creates: its name without refs/tags/ is the created name v<major>;
\* and once the ref is deleted the name of the floating tag is free
C29_SameRef ==
    \A r \in Procs :
        (InCreate(r) /\ cfg[r].Mode = ModeRelease) =>
            /\ \A i \in DeleteIdx(r) :
                  /\ TrimPrefix(log[r][i].name, RefsTagsPrefix) = FloatingName(plan[r])
                  /\ FloatingName(plan[r]) = <<"v">> \o plan[r].Version.Major
            /\ \A i \in FloatingCreateIdx(r) :
                  log[r][i].name = <<"v">> \o plan[r].Version.Major
            /\ (pc[r] = "floating" /\ plan[r].Floating.DeletedExisting) =>
                  (RefsTagsPrefix \o FloatingName(plan[r])) \notin RefNames(refs)

\* two release runs that are over, planned on the same snapshot different
\* versions of one major with floating tags enabled, and created their
\* release tags
ConcurrentMoves ==
    /\ \A r \in Procs :
          /\ pc[r] = "done"
          /\ ret[r].call = "PlanAndCreate"
          /\ cfg[r].Mode = ModeRelease
          /\ ReleaseTagCreated(r)
          /\ plan[r].Floating.Enabled
    /\ snap[1] = snap[2]
    /\ plan[1].Version.Major = plan[2].Version.Major
    /\ plan[1].Version # plan[2].Version

\* the run that planned the lower version
LowerRun == IF GT(plan[1].Version, plan[2].Version) THEN 2 ELSE 1

\* the refs of the store under the name of the floating tag of the runs
MovedRefs ==
    {refs[i] : i \in {j \in 1..Len(refs) :
                         refs[j].Name = RefsTagsPrefix \o FloatingName(plan[1])}}

====
